---- MODULE Spec2Model ----
(***************************************************************************)
(* Model of the network-speed measurement engine: configuration            *)
(* validation (types/config.rs), the Interface Directory                   *)
(* (monitor/interface.rs), the Rate Calculator and Measurement Engine      *)
(* (monitor/sync_monitor.rs, NetworkMonitor), the History Tracker          *)
(* (NetworkSpeedTracker) and the bridged tracker                           *)
(* (monitor/async_monitor.rs, AsyncNetworkSpeedTracker).                   *)
(*                                                                         *)
(* Durations and instants are whole milliseconds.  u64 values are modelled *)
(* as WordBits-bit words and f64 values as binary floating-point numbers   *)
(* with a MantBits-bit significand (64 and 53 in the build), rounded to    *)
(* nearest, ties to even.  Strings are sequences of characters.            *)
(***************************************************************************)
EXTENDS Integers, Sequences, FiniteSets, TLC

VARIABLES kind, config, interface_manager, previous_stats, history,
          max_history_size, pending, now, ret, arg, recorded,
          inner, history_lock, channel, producer

vars == <<kind, config, interface_manager, previous_stats, history,
          max_history_size, pending, now, ret, arg, recorded,
          inner, history_lock, channel, producer>>

\* the state of the concurrency bridge: the mutex around the monitor, the
\* mutex around the history, the channel of monitor_with_channel and its
\* producer task
bridge == <<inner, history_lock, channel, producer>>

(* ------------------------------ bounds --------------------------------- *)

\* width of the modelled u64 word
WordBits == 10

\* significand width of the modelled f64
MantBits == 7

\* largest history capacity a tracker is constructed with
MaxCap == 2

\* the clock stops advancing here
MaxNow == 200

\* concurrent callers of the bridged tracker
NumTasks == 2

(* ------------------------------ helpers -------------------------------- *)

RECURSIVE Pow2(_)
Pow2(n) == IF n = 0 THEN 1 ELSE 2 * Pow2(n - 1)

Word == Pow2(WordBits)

Min(a, b) == IF a <= b THEN a ELSE b

None == <<>>

Some(x) == <<x>>

Ok(v) == [ok |-> TRUE, val |-> v]

Err(e) == [ok |-> FALSE, err |-> e]

\* a `let` binding: the value of the singleton set S, computed once
Only(S) == CHOOSE x \in S : TRUE

\* u64::wrapping_sub
WrappingSub(a, b) == (a - b + Word) % Word

\* u64::saturating_add
SaturatingAdd(a, b) == Min(a + b, Word - 1)

(* ------------------------------ strings -------------------------------- *)

UpperToLower ==
  {
    <<"A", "a">>, <<"B", "b">>, <<"C", "c">>, <<"D", "d">>, <<"E", "e">>, <<"F", "f">>,
    <<"G", "g">>, <<"H", "h">>, <<"I", "i">>, <<"J", "j">>, <<"K", "k">>, <<"L", "l">>,
    <<"M", "m">>, <<"N", "n">>, <<"O", "o">>, <<"P", "p">>, <<"Q", "q">>, <<"R", "r">>,
    <<"S", "s">>, <<"T", "t">>, <<"U", "u">>, <<"V", "v">>, <<"W", "w">>, <<"X", "x">>,
    <<"Y", "y">>, <<"Z", "z">>
  }

LowerChar(c) == IF \E p \in UpperToLower : p[1] = c
                THEN (CHOOSE p \in UpperToLower : p[1] = c)[2]
                ELSE c

\* str::to_lowercase
ToLowercase(s) == [i \in 1..Len(s) |-> LowerChar(s[i])]

\* str::contains
Contains(hay, needle) ==
  \E i \in 0..(Len(hay) - Len(needle)) : SubSeq(hay, i + 1, i + Len(needle)) = needle

VIRTUAL_KEYWORDS ==
  {
    <<"v", "i", "r", "t", "u", "a", "l">>,
    <<"v", "p", "n">>,
    <<"t", "u", "n", "n", "e", "l">>,
    <<"t", "a", "p">>,
    <<"t", "u", "n">>,
    <<"v", "m", "w", "a", "r", "e">>,
    <<"v", "i", "r", "t", "u", "a", "l", "b", "o", "x">>,
    <<"h", "y", "p", "e", "r", "-", "v">>,
    <<"t", "e", "r", "e", "d", "o">>,
    <<"6", "t", "o", "4">>,
    <<"m", "i", "c", "r", "o", "s", "o", "f", "t", " ", "w", "i", "-", "f", "i", " ", "d", "i", "r", "e", "c", "t", " ", "v", "i", "r", "t", "u", "a", "l", " ", "a", "d", "a", "p", "t", "e", "r">>,
    <<"i", "s", "a", "t", "a", "p">>,
    <<"w", "a", "n", " ", "m", "i", "n", "i", "p", "o", "r", "t">>,
    <<"r", "a", "s", " ", "a", "s", "y", "n", "c", " ", "a", "d", "a", "p", "t", "e", "r">>,
    <<"p", "p", "t", "p">>,
    <<"l", "2", "t", "p">>,
    <<"s", "s", "t", "p">>,
    <<"i", "k", "e", "v", "2">>,
    <<"p", "p", "p">>,
    <<"d", "i", "a", "l", "-", "u", "p">>
  }

BLUETOOTH == <<"b", "l", "u", "e", "t", "o", "o", "t", "h">>

DescEthernet == <<"E", "t", "h", "e", "r", "n", "e", "t">>

DescLoopback == <<"L", "o", "o", "p", "b", "a", "c", "k">>

DescBluetooth == <<"B", "l", "u", "e", "t", "o", "o", "t", "h", " ", "P", "A", "N">>

DescTap == <<"T", "A", "P", "-", "W", "i", "n">>

(* ------------------------- f64 arithmetic ------------------------------ *)
\* A float is the rational <<n, d>> it denotes, n >= 0 and d > 0.

RECURSIVE Log2Floor(_, _)
Log2Floor(a, b) ==
  IF a >= b
  THEN IF a >= 2 * b THEN 1 + Log2Floor(a, 2 * b) ELSE 0
  ELSE Log2Floor(2 * a, b) - 1

RoundHalfEven(x, y) ==
  LET q == x \div y
      r == x % y
  IN  IF 2 * r < y THEN q
      ELSE IF 2 * r > y THEN q + 1
      ELSE IF q % 2 = 0 THEN q ELSE q + 1

\* the float nearest to a / b
RoundRat(a, b) ==
  IF a = 0 THEN <<0, 1>>
  ELSE LET s == Log2Floor(a, b) - (MantBits - 1)
       IN  IF s >= 0
           THEN <<RoundHalfEven(a, b * Pow2(s)) * Pow2(s), 1>>
           ELSE <<RoundHalfEven(a * Pow2(0 - s), b), Pow2(0 - s)>>

\* `x as f64`
F64FromInt(x) == RoundRat(x, 1)

F64Div(f, g) == RoundRat(f[1] * g[2], f[2] * g[1])

F64Add(f, g) == RoundRat(f[1] * g[2] + g[1] * f[2], f[2] * g[2])

\* `f as u64`: truncates toward zero and saturates at u64::MAX
F64ToU64(f) == Min(f[1] \div f[2], Word - 1)

\* Duration::as_secs_f64: (secs as f64) + (nanos as f64) / (NANOS_PER_SEC as f64);
\* nanos and NANOS_PER_SEC convert exactly, only their quotient is rounded
AsSecsF64(ms) == F64Add(F64FromInt(ms \div 1000), RoundRat(ms % 1000, 1000))

(* ------------------------------ config --------------------------------- *)

Instant == [mode |-> "Instant"]

Windowed(d) == [mode |-> "Windowed", duration |-> d]

Samples(n, d) == [mode |-> "Samples", samples |-> n, interval |-> d]

InvalidConfiguration(f) == [kind |-> "InvalidConfiguration", field |-> f]

InsufficientTimeElapsed(min, actual) ==
  [kind |-> "InsufficientTimeElapsed", min_ms |-> min, actual_ms |-> actual]

CalculationOverflow == [kind |-> "CalculationOverflow"]

NoInterfacesFound == [kind |-> "NoInterfacesFound"]

WindowsApi == [kind |-> "WindowsApi"]

InterfaceOperationFailed == [kind |-> "InterfaceOperationFailed"]

\* impl Default for NetworkMonitorConfig
DefaultConfig ==
  [ exclude_virtual                 |-> TRUE,
    exclude_loopback                |-> TRUE,
    exclude_bluetooth               |-> TRUE,
    min_measurement_interval        |-> 100,
    max_counter_wrap_threshold      |-> Pow2(WordBits - 2),
    interface_name_filters          |-> <<>>,
    interface_type_filters          |-> <<24>>,
    include_interface_indices       |-> <<>>,
    include_interface_name_patterns |-> <<>>,
    precision                       |-> Instant ]

\* PrecisionMode::validate
PrecisionValidate(p) ==
  IF p.mode = "Instant" THEN Ok(<<>>)
  ELSE IF p.mode = "Windowed"
  THEN IF p.duration = 0
       THEN Err(InvalidConfiguration("precision.windowed.duration must be > 0"))
       ELSE Ok(<<>>)
  ELSE IF p.interval = 0
       THEN Err(InvalidConfiguration("precision.samples.interval must be > 0"))
       ELSE Ok(<<>>)

validate_min_wrong(c) ==
  IF c.min_measurement_interval <= 10
  THEN Err(InvalidConfiguration("min_measurement_interval must be at least 10ms"))
  ELSE IF c.max_counter_wrap_threshold = 0
  THEN Err(InvalidConfiguration("max_counter_wrap_threshold cannot be zero"))
  ELSE IF c.precision.mode = "Samples" /\ c.precision.samples < 2
  THEN Err(InvalidConfiguration("precision.samples.samples must be >= 2"))
  ELSE PrecisionValidate(c.precision)

\* NetworkMonitorConfig::validate
validate(c) ==
  IF c.min_measurement_interval < 10
  THEN Err(InvalidConfiguration("min_measurement_interval must be at least 10ms"))
  ELSE IF c.max_counter_wrap_threshold = 0
  THEN Err(InvalidConfiguration("max_counter_wrap_threshold cannot be zero"))
  ELSE IF c.precision.mode = "Samples" /\ c.precision.samples < 2
  THEN Err(InvalidConfiguration("precision.samples.samples must be >= 2"))
  ELSE PrecisionValidate(c.precision)

\* NetworkMonitorConfigBuilder::build
build(c) == IF validate(c).ok THEN Ok(c) ELSE validate(c)

\* NetworkMonitorConfigBuilder::build_unchecked
build_unchecked(c) == c

(* ------------------------ Interface Directory -------------------------- *)

NetworkInterface(i, t, d, s, r) ==
  [index |-> i, interface_type |-> t, description |-> d,
   bytes_sent |-> s, bytes_received |-> r]

\* is_virtual_interface_by_description
is_virtual_interface_by_description(description) ==
  \E k \in VIRTUAL_KEYWORDS : Contains(ToLowercase(description), k)

\* descriptions of the adapters in the model; the three tables below hold
\* the string functions evaluated once per description
Descriptions == {DescEthernet, DescLoopback, DescBluetooth, DescTap}

LowerOf == [d \in Descriptions |-> ToLowercase(d)]

VirtualOf == [d \in Descriptions |-> is_virtual_interface_by_description(d)]

BluetoothOf == [d \in Descriptions |-> Contains(ToLowercase(d), BLUETOOTH)]

\* NetworkInterface::is_virtual
is_virtual(iface) == VirtualOf[iface.description]

\* NetworkInterface::is_loopback
is_loopback(iface) == iface.interface_type = 24

\* NetworkInterface::is_bluetooth
is_bluetooth(iface) == BluetoothOf[iface.description]

SeqContains(s, x) == \E i \in 1..Len(s) : s[i] = x

\* include patterns compared as written, without to_lowercase
should_include_interface_case_sensitive(c, iface) ==
  LET desc_lower == LowerOf[iface.description]
  IN  IF /\ c.include_interface_indices # <<>>
         /\ ~SeqContains(c.include_interface_indices, iface.index)
      THEN FALSE
      ELSE IF /\ c.include_interface_name_patterns # <<>>
              /\ ~\E i \in 1..Len(c.include_interface_name_patterns) :
                    Contains(desc_lower, c.include_interface_name_patterns[i])
      THEN FALSE
      ELSE IF c.exclude_loopback /\ is_loopback(iface) THEN FALSE
      ELSE IF c.exclude_virtual /\ is_virtual(iface) THEN FALSE
      ELSE IF c.exclude_bluetooth /\ is_bluetooth(iface) THEN FALSE
      ELSE IF SeqContains(c.interface_type_filters, iface.interface_type) THEN FALSE
      ELSE IF /\ c.interface_name_filters # <<>>
              /\ \E i \in 1..Len(c.interface_name_filters) :
                    Contains(desc_lower, ToLowercase(c.interface_name_filters[i]))
      THEN FALSE
      ELSE TRUE

\* InterfaceManager::should_include_interface
should_include_interface(c, iface) ==
  LET desc_lower == LowerOf[iface.description]
  IN  IF /\ c.include_interface_indices # <<>>
         /\ ~SeqContains(c.include_interface_indices, iface.index)
      THEN FALSE
      ELSE IF /\ c.include_interface_name_patterns # <<>>
              /\ ~\E i \in 1..Len(c.include_interface_name_patterns) :
                    Contains(desc_lower, ToLowercase(c.include_interface_name_patterns[i]))
      THEN FALSE
      ELSE IF c.exclude_loopback /\ is_loopback(iface) THEN FALSE
      ELSE IF c.exclude_virtual /\ is_virtual(iface) THEN FALSE
      ELSE IF c.exclude_bluetooth /\ is_bluetooth(iface) THEN FALSE
      ELSE IF SeqContains(c.interface_type_filters, iface.interface_type) THEN FALSE
      ELSE IF /\ c.interface_name_filters # <<>>
              /\ \E i \in 1..Len(c.interface_name_filters) :
                    Contains(desc_lower, ToLowercase(c.interface_name_filters[i]))
      THEN FALSE
      ELSE TRUE

\* HashMap::new
EmptyCache == << >>

\* InterfaceManager::new
InterfaceManagerNew(c) == [config |-> c, interface_cache |-> EmptyCache]

\* the accepted descriptors are inserted and no stale entry is removed
get_active_interfaces_keeps_stale(mgr, enumerated) ==
  IF ~enumerated.ok THEN [mgr |-> mgr, res |-> enumerated]
  ELSE Only({
    LET active_indices == {active_interfaces[i].index : i \in 1..Len(active_interfaces)}
        Last(idx) == CHOOSE i \in 1..Len(active_interfaces) :
                        /\ active_interfaces[i].index = idx
                        /\ \A j \in (i + 1)..Len(active_interfaces) :
                              active_interfaces[j].index # idx
    IN  IF active_indices = {}
        THEN [mgr |-> [mgr EXCEPT !.interface_cache = EmptyCache],
              res |-> Err(NoInterfacesFound)]
        ELSE [mgr |-> [mgr EXCEPT !.interface_cache =
                                    [idx \in active_indices \cup DOMAIN mgr.interface_cache |->
                                       IF idx \in active_indices
                                       THEN active_interfaces[Last(idx)]
                                       ELSE mgr.interface_cache[idx]]],
              res |-> Ok(active_interfaces)]
    : active_interfaces \in
        {SelectSeq(enumerated.val, LAMBDA x : should_include_interface(mgr.config, x))} })

\* InterfaceManager::get_active_interfaces; enumerated is the outcome of
\* get_raw_interfaces()
get_active_interfaces(mgr, enumerated) ==
  IF ~enumerated.ok THEN [mgr |-> mgr, res |-> enumerated]
  ELSE Only({
    LET active_indices == {active_interfaces[i].index : i \in 1..Len(active_interfaces)}
        Last(idx) == CHOOSE i \in 1..Len(active_interfaces) :
                        /\ active_interfaces[i].index = idx
                        /\ \A j \in (i + 1)..Len(active_interfaces) :
                              active_interfaces[j].index # idx
    IN  IF active_indices = {}
        THEN [mgr |-> [mgr EXCEPT !.interface_cache = EmptyCache],
              res |-> Err(NoInterfacesFound)]
        ELSE [mgr |-> [mgr EXCEPT !.interface_cache =
                                    [idx \in active_indices |-> active_interfaces[Last(idx)]]],
              res |-> Ok(active_interfaces)]
    : active_interfaces \in
        {SelectSeq(enumerated.val, LAMBDA x : should_include_interface(mgr.config, x))} })

\* InterfaceManager::refresh_cache
refresh_cache(mgr, enumerated) ==
  Only({ IF ~a.res.ok THEN a ELSE [mgr |-> a.mgr, res |-> Ok(<<>>)]
         : a \in {get_active_interfaces([mgr EXCEPT !.interface_cache = EmptyCache],
                                        enumerated)} })

RECURSIVE SumU64(_, _)
\* Iterator::sum::<u64>() over field f (release build: wraps)
SumU64(s, f) ==
  IF s = <<>> THEN 0 ELSE (s[1][f] + SumU64(Tail(s), f)) % Word

\* InterfaceManager::get_total_traffic
get_total_traffic(mgr, enumerated) ==
  Only({ IF ~a.res.ok THEN a
         ELSE [mgr |-> a.mgr,
               res |-> Ok(<<SumU64(a.res.val, "bytes_sent"),
                            SumU64(a.res.val, "bytes_received")>>)]
         : a \in {get_active_interfaces(mgr, enumerated)} })

(* ---------------------------- environment ------------------------------ *)

Eth(s, r) == NetworkInterface(1, 6, DescEthernet, s, r)

Lo == NetworkInterface(2, 24, DescLoopback, 7, 7)

\* <<bytes sent, bytes received>> the Ethernet adapter may report
TrafficVals == {<<0, 0>>, <<20, 40>>}

\* tables the enumeration provider may return
RawTables == {<<Lo>>} \cup {<<Eth(v[1], v[2]), Lo>> : v \in TrafficVals}

\* outcomes of get_raw_interfaces()
EnumResults == {Err(WindowsApi)} \cup {Ok(tbl) : tbl \in RawTables}

\* time thread::sleep may take beyond the requested duration
Oversleep == {0, 50}

\* what the environment does during one windowed measurement
WindowEnvs == EnumResults \X Oversleep \X EnumResults

(* -------------------- Rate Calculator and Engine ----------------------- *)

InterfaceStats(s, r, t) == [bytes_sent |-> s, bytes_received |-> r, last_update |-> t]

\* NetworkSpeed::new at instant t
NetworkSpeed(u, d, t) ==
  [upload_bytes_per_sec |-> u, download_bytes_per_sec |-> d, timestamp |-> t]

\* NetworkSpeed::total_bytes_per_sec
total_bytes_per_sec(s) == SaturatingAdd(s.upload_bytes_per_sec, s.download_bytes_per_sec)

\* Instant::duration_since (saturates at zero)
DurationSince(t, earlier) == IF t >= earlier THEN t - earlier ELSE 0

\* the threshold test ahead of the interval test
calculate_speed_overflow_first(c, current, previous, timestamp) ==
  LET duration == DurationSince(timestamp, previous.last_update)
      seconds == AsSecsF64(duration)
      upload_diff == WrappingSub(current.bytes_sent, previous.bytes_sent)
      download_diff == WrappingSub(current.bytes_received, previous.bytes_received)
  IN  IF \/ upload_diff > c.max_counter_wrap_threshold
         \/ download_diff > c.max_counter_wrap_threshold
      THEN Err(CalculationOverflow)
      ELSE IF duration < c.min_measurement_interval
      THEN Err(InsufficientTimeElapsed(c.min_measurement_interval, duration))
      ELSE IF seconds[1] = 0
      THEN Err(InsufficientTimeElapsed(c.min_measurement_interval, 0))
      ELSE Ok(NetworkSpeed(F64ToU64(F64Div(F64FromInt(upload_diff), seconds)),
                           F64ToU64(F64Div(F64FromInt(download_diff), seconds)),
                           timestamp))

\* NetworkMonitor::calculate_speed
calculate_speed(c, current, previous, timestamp) ==
  LET duration == DurationSince(timestamp, previous.last_update)
      seconds == AsSecsF64(duration)
      upload_diff == WrappingSub(current.bytes_sent, previous.bytes_sent)
      download_diff == WrappingSub(current.bytes_received, previous.bytes_received)
  IN  IF duration < c.min_measurement_interval
      THEN Err(InsufficientTimeElapsed(c.min_measurement_interval, duration))
      ELSE IF seconds[1] = 0
      THEN Err(InsufficientTimeElapsed(c.min_measurement_interval, 0))
      ELSE IF \/ upload_diff > c.max_counter_wrap_threshold
              \/ download_diff > c.max_counter_wrap_threshold
      THEN Err(CalculationOverflow)
      ELSE Ok(NetworkSpeed(F64ToU64(F64Div(F64FromInt(upload_diff), seconds)),
                           F64ToU64(F64Div(F64FromInt(download_diff), seconds)),
                           timestamp))

\* NetworkMonitor::with_config
MonitorWithConfig(c) ==
  [config |-> c, interface_manager |-> InterfaceManagerNew(c), previous_stats |-> None]

\* NetworkMonitor::new
MonitorNew == MonitorWithConfig(DefaultConfig)

\* The engine operators take the monitor m, the instant t of the call and the
\* environment's answers, and return the monitor after the call, the result
\* and the instant at which the call returns.
Outcome(m, res, t) == [m |-> m, res |-> res, t |-> t]

\* NetworkMonitor::get_current_stats
get_current_stats(m, t, enumerated) ==
  Only({ IF ~tt.res.ok
         THEN Outcome([m EXCEPT !.interface_manager = tt.mgr], tt.res, t)
         ELSE Outcome([m EXCEPT !.interface_manager = tt.mgr],
                      Ok(InterfaceStats(tt.res.val[1], tt.res.val[2], t)), t)
         : tt \in {get_total_traffic(m.interface_manager, enumerated)} })

\* a reset that also rebuilds the interface manager
MonitorReset_rebuilds_manager(m) ==
  [m EXCEPT !.previous_stats = None,
            !.interface_manager = InterfaceManagerNew(m.config)]

\* NetworkMonitor::reset
MonitorReset(m) == [m EXCEPT !.previous_stats = None]

\* a cold start diffed against InterfaceStats::default()
measure_instant_diffs_default(m, t, enumerated) ==
  Only({ IF ~cs.res.ok THEN cs
         ELSE Only({ IF ~speed.ok THEN Outcome(cs.m, speed, t)
                     ELSE Outcome([cs.m EXCEPT !.previous_stats = Some(cs.res.val)],
                                  speed, t)
                     : speed \in
                         {calculate_speed(cs.m.config, cs.res.val,
                                          IF cs.m.previous_stats # None
                                          THEN cs.m.previous_stats[1]
                                          ELSE InterfaceStats(0, 0, 0),
                                          cs.res.val.last_update)} })
         : cs \in {get_current_stats(m, t, enumerated)} })

\* the previous snapshot taken out of the engine before the calculation and
\* put back only with a successful one
measure_instant_takes_previous(m, t, enumerated) ==
  Only({ IF ~cs.res.ok THEN cs
         ELSE Only({ IF ~speed.ok
                     THEN Outcome([cs.m EXCEPT !.previous_stats = None], speed, t)
                     ELSE Outcome([cs.m EXCEPT !.previous_stats = Some(cs.res.val)],
                                  speed, t)
                     : speed \in
                         {IF cs.m.previous_stats # None
                          THEN calculate_speed(cs.m.config, cs.res.val,
                                               cs.m.previous_stats[1],
                                               cs.res.val.last_update)
                          ELSE Ok(NetworkSpeed(0, 0, t))} })
         : cs \in {get_current_stats(m, t, enumerated)} })

\* NetworkMonitor::measure_instant
measure_instant(m, t, enumerated) ==
  Only({ IF ~cs.res.ok THEN cs
         ELSE Only({ IF ~speed.ok THEN Outcome(cs.m, speed, t)
                     ELSE Outcome([cs.m EXCEPT !.previous_stats = Some(cs.res.val)],
                                  speed, t)
                     : speed \in
                         {IF cs.m.previous_stats # None
                          THEN calculate_speed(cs.m.config, cs.res.val,
                                               cs.m.previous_stats[1],
                                               cs.res.val.last_update)
                          ELSE Ok(NetworkSpeed(0, 0, t))} })
         : cs \in {get_current_stats(m, t, enumerated)} })

\* NetworkMonitor::measure_windowed; w = <<first enumeration, time slept
\* beyond the requested duration, second enumeration>>
measure_windowed(m, t, duration, w) ==
  Only({ IF ~initial.res.ok THEN initial
         ELSE Only({ IF ~final.res.ok THEN final
                     ELSE Only({ IF ~speed.ok THEN Outcome(final.m, speed, final.t)
                                 ELSE Outcome([final.m EXCEPT
                                                 !.previous_stats = Some(final.res.val)],
                                              speed, final.t)
                                 : speed \in
                                     {calculate_speed(final.m.config, final.res.val,
                                                      initial.res.val,
                                                      final.res.val.last_update)} })
                     : final \in
                         {get_current_stats(initial.m, t + duration + w[2], w[3])} })
         : initial \in {get_current_stats(m, t, w[1])} })

\* The operators below return the set of outcomes a call can have, one for
\* each behaviour of the environment during the call.

RECURSIVE SamplesLoop(_, _, _, _, _, _, _)
\* the loop of measure_samples with n windows left to run; total_upload and
\* total_download are the u128 sums, windows lists the windows run so far
\* (result, start and end of each)
SamplesLoop(m, t, interval, n, total_upload, total_download, windows) ==
  IF n = 0 THEN {[m |-> m, t |-> t, ok |-> TRUE, windows |-> windows,
                  total_upload |-> total_upload, total_download |-> total_download]}
  ELSE UNION {
         IF ~o.res.ok
         THEN {[m |-> o.m, t |-> o.t, ok |-> FALSE, res |-> o.res,
                windows |-> Append(windows, [res |-> o.res, from |-> t, to |-> o.t])]}
         ELSE SamplesLoop(o.m, o.t, interval, n - 1,
                          total_upload + o.res.val.upload_bytes_per_sec,
                          total_download + o.res.val.download_bytes_per_sec,
                          Append(windows, [res |-> o.res, from |-> t, to |-> o.t]))
         : o \in {measure_windowed(m, t, interval, w) : w \in WindowEnvs} }

\* an accumulator of the width of the rates
measure_samples_narrow_sum(m, t, samples, interval) ==
  { IF ~l.ok THEN [m |-> l.m, res |-> l.res, t |-> l.t, windows |-> l.windows]
    ELSE [m |-> l.m,
          res |-> Ok(NetworkSpeed((l.total_upload % Word) \div samples,
                                  (l.total_download % Word) \div samples, l.t)),
          t |-> l.t, windows |-> l.windows]
    : l \in SamplesLoop(m, t, interval, samples, 0, 0, <<>>) }

\* NetworkMonitor::measure_samples; an outcome also lists the windows run
measure_samples(m, t, samples, interval) ==
  { IF ~l.ok THEN [m |-> l.m, res |-> l.res, t |-> l.t, windows |-> l.windows]
    ELSE [m |-> l.m,
          res |-> Ok(NetworkSpeed(l.total_upload \div samples,
                                  l.total_download \div samples, l.t)),
          t |-> l.t, windows |-> l.windows]
    : l \in SamplesLoop(m, t, interval, samples, 0, 0, <<>>) }

\* NetworkMonitor::measure_speed
measure_speed(m, t) ==
  IF m.config.precision.mode = "Instant"
  THEN {measure_instant(m, t, e) : e \in EnumResults}
  ELSE IF m.config.precision.mode = "Windowed"
  THEN {measure_windowed(m, t, m.config.precision.duration, w) : w \in WindowEnvs}
  ELSE measure_samples(m, t, m.config.precision.samples, m.config.precision.interval)

\* the configured precision honoured by the blocking call
measure_speed_blocking_by_precision(m, t, measurement_duration, w) ==
  IF m.config.precision.mode = "Instant" THEN measure_instant(m, t, w[1])
  ELSE measure_windowed(m, t, measurement_duration, w)

\* NetworkMonitor::measure_speed_blocking under environment w
measure_speed_blocking(m, t, measurement_duration, w) ==
  measure_windowed(m, t, measurement_duration, w)

\* initial_stats and final_stats of measure_windowed under environment w:
\* the results of its two get_current_stats calls (final is None when the
\* first call failed)
WindowSnapshots(m, t, duration, w) ==
  Only({ [initial |-> a.res,
          final |-> IF a.res.ok
                    THEN Some(get_current_stats(a.m, t + duration + w[2], w[3]).res)
                    ELSE None]
         : a \in {get_current_stats(m, t, w[1])} })

\* every failure of the measurement handed to the caller
get_instantaneous_speed_propagates_all(m, t) ==
  IF m.previous_stats = None
  THEN {[m |-> m, res |-> Ok(None), t |-> t, measured |-> None]}
  ELSE { [m |-> o.m,
          res |-> IF o.res.ok THEN Ok(Some(o.res.val)) ELSE o.res,
          t |-> o.t, measured |-> Some(o.res)]
         : o \in measure_speed(m, t) }

\* a measurement made whether or not a previous snapshot exists
get_instantaneous_speed_measures_cold(m, t) ==
  { [m |-> o.m,
     res |-> IF o.res.ok THEN Ok(Some(o.res.val))
             ELSE IF o.res.err.kind = "InsufficientTimeElapsed" THEN Ok(None)
             ELSE o.res,
     t |-> o.t, measured |-> Some(o.res)]
    : o \in measure_speed(m, t) }

\* NetworkMonitor::get_instantaneous_speed; measured is the result of the
\* measure_speed() call it made, None when it made none
get_instantaneous_speed(m, t) ==
  IF m.previous_stats = None
  THEN {[m |-> m, res |-> Ok(None), t |-> t, measured |-> None]}
  ELSE { [m |-> o.m,
          res |-> IF o.res.ok THEN Ok(Some(o.res.val))
                  ELSE IF o.res.err.kind = "InsufficientTimeElapsed" THEN Ok(None)
                  ELSE o.res,
          t |-> o.t, measured |-> Some(o.res)]
         : o \in measure_speed(m, t) }

\* the new config adopted before it is validated
update_config_adopts_first(m, c) ==
  [m |-> MonitorReset([m EXCEPT !.config = c,
                                !.interface_manager = InterfaceManagerNew(c)]),
   res |-> validate(c)]

\* the stored snapshot kept across the reconfiguration
update_config_keeps_snapshot(m, c) ==
  IF ~validate(c).ok THEN [m |-> m, res |-> validate(c)]
  ELSE [m |-> [m EXCEPT !.config = c, !.interface_manager = InterfaceManagerNew(c)],
        res |-> Ok(<<>>)]

\* NetworkMonitor::update_config
update_config(m, c) ==
  IF ~validate(c).ok THEN [m |-> m, res |-> validate(c)]
  ELSE [m |-> MonitorReset([m EXCEPT !.config = c,
                                     !.interface_manager = InterfaceManagerNew(c)]),
        res |-> Ok(<<>>)]

(* --------------------------- History Tracker --------------------------- *)

\* the eviction test off by one
PushBounded_late_eviction(h, speed, max) ==
  LET pushed == Append(h, speed)
  IN  IF Len(pushed) > max + 1 THEN Tail(pushed) ELSE pushed

\* pop_back in place of pop_front
PushBounded_evict_newest(h, speed, max) ==
  LET pushed == Append(h, speed)
  IN  IF Len(pushed) > max THEN SubSeq(pushed, 1, Len(pushed) - 1) ELSE pushed

\* VecDeque::push_back followed by the pop_front of track_speed
PushBounded(h, speed, max) ==
  LET pushed == Append(h, speed)
  IN  IF Len(pushed) > max THEN Tail(pushed) ELSE pushed

(* ------------------------------ inputs --------------------------------- *)

\* steps of the clock between calls
TickSteps == {50, 100}

\* durations passed to measure_speed_blocking
BlockingDurations == {0, 100}

CfgWindowed == [DefaultConfig EXCEPT !.precision = Windowed(100)]

CfgSamples == [DefaultConfig EXCEPT !.precision = Samples(2, 100)]

CfgNoMatch == [DefaultConfig EXCEPT !.include_interface_indices = <<2>>]

CfgLowThreshold == [DefaultConfig EXCEPT !.max_counter_wrap_threshold = 10,
                                         !.min_measurement_interval = 50]

CfgMinZero == [DefaultConfig EXCEPT !.min_measurement_interval = 0]

CfgThresholdZero == [DefaultConfig EXCEPT !.max_counter_wrap_threshold = 0]

CfgOneSample == [DefaultConfig EXCEPT !.precision = Samples(1, 100)]

CfgZeroWindow == [DefaultConfig EXCEPT !.precision = Windowed(0)]

\* configs handed to with_config (which takes any config, valid or not)
InitialConfigs == {DefaultConfig, CfgWindowed, CfgSamples, CfgNoMatch, CfgLowThreshold,
                   CfgMinZero}

\* configs handed to update_config
Configs == {DefaultConfig, CfgWindowed, CfgSamples, CfgNoMatch, CfgLowThreshold,
            CfgMinZero, CfgThresholdZero, CfgOneSample, CfgZeroWindow}

Tasks == 1..NumTasks

(* ---------------------------- state machine ---------------------------- *)

\* Mutex::new: nobody holds the lock and it is not poisoned
Unlocked == [owner |-> None, poisoned |-> FALSE]

\* no channel was created
NoChannel == [open |-> FALSE]

\* no producer task was spawned
NoProducer == [pc |-> "none"]

\* an object used without monitor_with_channel
NoBridge ==
  /\ inner = Unlocked
  /\ history_lock = Unlocked
  /\ channel = NoChannel
  /\ producer = NoProducer

\* the NetworkMonitor held in the variables
Monitor ==
  [config |-> config, interface_manager |-> interface_manager,
   previous_stats |-> previous_stats]

SetMonitor(m) ==
  /\ config' = m.config
  /\ interface_manager' = m.interface_manager
  /\ previous_stats' = m.previous_stats

Idle == [pc |-> "idle"]

\* the state after construction of an object of kind k with a config in
\* cfgs and a capacity in caps
Constructed(k, cfgs, caps) ==
  /\ kind = k
  /\ \E c \in cfgs :
       /\ config = c
       /\ interface_manager = InterfaceManagerNew(c)
  /\ previous_stats = None
  /\ history = <<>>
  /\ max_history_size \in caps
  /\ pending = [t \in Tasks |-> Idle]
  /\ now = 0
  /\ ret = [op |-> "new"]
  /\ arg = <<>>
  /\ recorded = <<>>
  /\ NoBridge

\* NetworkMonitor::new / with_config
Init == Constructed("monitor", InitialConfigs, {0})

\* NetworkSpeedTracker::new / with_config
InitTracker == Constructed("tracker", InitialConfigs, 0..MaxCap)

\* AsyncNetworkSpeedTracker::new / with_config
InitAsyncTracker == Constructed("async_tracker", {DefaultConfig, CfgWindowed}, 0..MaxCap)

\* time passes between two calls
Tick ==
  /\ \E dt \in TickSteps :
       /\ now + dt <= MaxNow
       /\ now' = now + dt
  /\ UNCHANGED bridge
  /\ UNCHANGED <<kind, config, interface_manager, previous_stats, history,
                 max_history_size, pending, ret, arg, recorded>>

\* NetworkMonitor::measure_speed
MeasureSpeed ==
  /\ kind = "monitor"
  /\ \E o \in measure_speed(Monitor, now) :
       /\ o.t <= MaxNow
       /\ SetMonitor(o.m)
       /\ now' = o.t
       /\ ret' = [op |-> "measure_speed", pre |-> Monitor, res |-> o.res]
  /\ UNCHANGED bridge
  /\ UNCHANGED <<kind, history, max_history_size, pending, arg, recorded>>

\* NetworkMonitor::measure_speed_blocking
MeasureSpeedBlocking ==
  /\ kind = "monitor"
  /\ \E d \in BlockingDurations, w \in WindowEnvs :
       \E o \in {measure_speed_blocking(Monitor, now, d, w)} :
         /\ o.t <= MaxNow
         /\ SetMonitor(o.m)
         /\ now' = o.t
         /\ ret' = [op |-> "measure_speed_blocking", pre |-> Monitor,
                    duration |-> d, snapshots |-> WindowSnapshots(Monitor, now, d, w),
                    res |-> o.res]
  /\ UNCHANGED bridge
  /\ UNCHANGED <<kind, history, max_history_size, pending, arg, recorded>>

\* NetworkMonitor::get_instantaneous_speed
GetInstantaneousSpeed ==
  /\ kind = "monitor"
  /\ \E o \in get_instantaneous_speed(Monitor, now) :
       /\ o.t <= MaxNow
       /\ SetMonitor(o.m)
       /\ now' = o.t
       /\ ret' = [op |-> "get_instantaneous_speed", pre |-> Monitor,
                  measured |-> o.measured, res |-> o.res]
  /\ UNCHANGED bridge
  /\ UNCHANGED <<kind, history, max_history_size, pending, arg, recorded>>

\* NetworkMonitor::reset
Reset ==
  /\ kind = "monitor"
  /\ SetMonitor(MonitorReset(Monitor))
  /\ ret' = [op |-> "reset", pre |-> Monitor]
  /\ UNCHANGED bridge
  /\ UNCHANGED <<kind, history, max_history_size, pending, now, arg, recorded>>

\* NetworkMonitor::update_config
UpdateConfig ==
  /\ kind = "monitor"
  /\ \E c \in Configs :
       LET o == update_config(Monitor, c)
       IN  /\ SetMonitor(o.m)
           /\ ret' = [op |-> "update_config", pre |-> Monitor, new |-> c, res |-> o.res]
  /\ UNCHANGED bridge
  /\ UNCHANGED <<kind, history, max_history_size, pending, now, arg, recorded>>

\* a failed measurement reported as a zero speed
track_speed_swallows_error(m, h, max, t) ==
  { IF ~o.res.ok
    THEN [m |-> o.m, history |-> h, measured |-> o.res,
          res |-> Ok(NetworkSpeed(0, 0, o.t)), t |-> o.t]
    ELSE [m |-> o.m, history |-> PushBounded(h, o.res.val, max),
          measured |-> o.res, res |-> Ok(o.res.val), t |-> o.t]
    : o \in measure_speed(m, t) }

\* NetworkSpeedTracker::track_speed on monitor m and history h
track_speed(m, h, max, t) ==
  { IF ~o.res.ok
    THEN [m |-> o.m, history |-> h, measured |-> o.res, res |-> o.res, t |-> o.t]
    ELSE [m |-> o.m, history |-> PushBounded(h, o.res.val, max),
          measured |-> o.res, res |-> Ok(o.res.val), t |-> o.t]
    : o \in measure_speed(m, t) }

\* NetworkSpeedTracker::track_speed
TrackSpeed ==
  /\ kind = "tracker"
  /\ \E o \in track_speed(Monitor, history, max_history_size, now) :
       /\ o.t <= MaxNow
       /\ SetMonitor(o.m)
       /\ history' = o.history
       /\ now' = o.t
       /\ recorded' = IF o.measured.ok THEN Append(recorded, o.measured.val)
                      ELSE recorded
       /\ ret' = [op |-> "track_speed", pre |-> Monitor, hist |-> history,
                  measured |-> o.measured, res |-> o.res]
  /\ UNCHANGED bridge
  /\ UNCHANGED <<kind, max_history_size, pending, arg>>

\* NetworkSpeedTracker::get_history
GetHistory ==
  /\ kind = "tracker"
  /\ ret' = [op |-> "get_history", res |-> history]
  /\ UNCHANGED bridge
  /\ UNCHANGED <<kind, config, interface_manager, previous_stats, history,
                 max_history_size, pending, now, arg, recorded>>

\* NetworkSpeedTracker::clear_history
ClearHistory ==
  /\ kind = "tracker"
  /\ history' = <<>>
  /\ recorded' = <<>>
  /\ ret' = [op |-> "clear_history", pre |-> Monitor]
  /\ UNCHANGED bridge
  /\ UNCHANGED <<kind, config, interface_manager, previous_stats,
                 max_history_size, pending, now, arg>>

\* NetworkSpeedTracker::reset
TrackerReset ==
  /\ kind = "tracker"
  /\ SetMonitor(MonitorReset(Monitor))
  /\ history' = <<>>
  /\ recorded' = <<>>
  /\ ret' = [op |-> "tracker_reset", pre |-> Monitor]
  /\ UNCHANGED bridge
  /\ UNCHANGED <<kind, max_history_size, pending, now, arg>>

(* ------------------------- bridged tracker ----------------------------- *)
\* Each call of a task runs its blocking closures one after another; a
\* closure holds the monitor lock or the history lock for its whole run, and
\* a closure that panics with the history lock held poisons it.

\* AsyncNetworkSpeedTracker::track_speed, first closure:
\* self.monitor.measure_speed().await
AsyncTrackMeasure(task) ==
  /\ kind = "async_tracker"
  /\ pending[task] = Idle
  /\ \E o \in measure_speed(Monitor, now) :
       /\ o.t <= MaxNow
       /\ SetMonitor(o.m)
       /\ now' = o.t
       /\ pending' = IF o.res.ok
                     THEN [pending EXCEPT ![task] = [pc |-> "append", speed |-> o.res.val]]
                     ELSE pending
       /\ ret' = [op |-> "async_measure", task |-> task, res |-> o.res]
  /\ UNCHANGED bridge
  /\ UNCHANGED <<kind, history, max_history_size, arg, recorded>>

\* AsyncNetworkSpeedTracker::track_speed, second closure: push_back and
\* pop_front under the history lock
AsyncTrackAppend(task) ==
  /\ kind = "async_tracker"
  /\ pending[task].pc = "append"
  /\ history' = IF history_lock.poisoned THEN history
                ELSE PushBounded(history, pending[task].speed, max_history_size)
  /\ pending' = [pending EXCEPT ![task] = Idle]
  /\ ret' = [op |-> "async_track_speed", task |-> task, hist |-> history,
             res |-> IF history_lock.poisoned THEN Err(InterfaceOperationFailed)
                     ELSE Ok(pending[task].speed)]
  /\ UNCHANGED bridge
  /\ UNCHANGED <<kind, config, interface_manager, previous_stats,
                 max_history_size, now, arg, recorded>>

\* AsyncNetworkSpeedTracker::reset, first closure: self.monitor.reset().await
AsyncResetMonitor(task) ==
  /\ kind = "async_tracker"
  /\ pending[task] = Idle
  /\ SetMonitor(MonitorReset(Monitor))
  /\ pending' = [pending EXCEPT ![task] = [pc |-> "clear"]]
  /\ ret' = [op |-> "async_reset_monitor", task |-> task]
  /\ UNCHANGED bridge
  /\ UNCHANGED <<kind, history, max_history_size, now, arg, recorded>>

\* AsyncNetworkSpeedTracker::clear_history, called directly or as the
\* second closure of reset
AsyncClearHistory(task) ==
  /\ kind = "async_tracker"
  /\ pending[task] \in {Idle, [pc |-> "clear"]}
  /\ history' = IF history_lock.poisoned THEN history ELSE <<>>
  /\ pending' = [pending EXCEPT ![task] = Idle]
  /\ ret' = [op |-> "async_clear_history", task |-> task]
  /\ UNCHANGED bridge
  /\ UNCHANGED <<kind, config, interface_manager, previous_stats,
                 max_history_size, now, arg, recorded>>

\* a NetworkMonitor and its caller
Next ==
  \/ Tick
  \/ MeasureSpeed
  \/ MeasureSpeedBlocking
  \/ GetInstantaneousSpeed
  \/ Reset
  \/ UpdateConfig

Spec == Init /\ [][Next]_vars

\* a NetworkSpeedTracker and its caller
NextTracker ==
  \/ Tick
  \/ TrackSpeed
  \/ GetHistory
  \/ ClearHistory
  \/ TrackerReset

SpecTracker == InitTracker /\ [][NextTracker]_vars

\* an AsyncNetworkSpeedTracker and NumTasks concurrent callers
NextAsyncTracker ==
  \/ Tick
  \/ \E task \in Tasks : AsyncTrackMeasure(task)
  \/ \E task \in Tasks : AsyncTrackAppend(task)
  \/ \E task \in Tasks : AsyncResetMonitor(task)
  \/ \E task \in Tasks : AsyncClearHistory(task)

SpecAsyncTracker == InitAsyncTracker /\ [][NextAsyncTracker]_vars

\* a tracker of either kind
SpecTrackers ==
  (InitTracker \/ InitAsyncTracker) /\ [][NextTracker \/ NextAsyncTracker]_vars

(* ----------------------- pure functions as steps ----------------------- *)

\* min_measurement_interval values around the 10 ms floor
ValidateIntervals == {0, 9, 10, 11, 100}

ValidateThresholds == {0, 1, Pow2(WordBits - 2)}

ValidatePrecisions ==
  {Instant, Windowed(0), Windowed(100)}
    \cup {Samples(n, d) : n \in {1, 2, 3}, d \in {0, 100}}

\* configs handed to validate() and to the builder
ValidateInputs ==
  { [DefaultConfig EXCEPT !.min_measurement_interval = i,
                          !.max_counter_wrap_threshold = th,
                          !.precision = pr]
    : i \in ValidateIntervals, th \in ValidateThresholds, pr \in ValidatePrecisions }

InitValidate ==
  /\ kind = "config"
  /\ config \in ValidateInputs
  /\ interface_manager = InterfaceManagerNew(config)
  /\ previous_stats = None
  /\ history = <<>>
  /\ max_history_size = 0
  /\ pending = [t \in Tasks |-> Idle]
  /\ now = 0
  /\ ret = [op |-> "new"]
  /\ arg = <<>>
  /\ recorded = <<>>
  /\ NoBridge

\* NetworkMonitorConfig::validate
Validate ==
  /\ kind = "config"
  /\ ret' = [op |-> "validate", res |-> validate(config)]
  /\ UNCHANGED bridge
  /\ UNCHANGED <<kind, config, interface_manager, previous_stats, history,
                 max_history_size, pending, now, arg, recorded>>

\* NetworkMonitorConfigBuilder::build
Build ==
  /\ kind = "config"
  /\ ret' = [op |-> "build", res |-> build(config)]
  /\ UNCHANGED bridge
  /\ UNCHANGED <<kind, config, interface_manager, previous_stats, history,
                 max_history_size, pending, now, arg, recorded>>

NextValidate == Validate \/ Build

SpecValidate == InitValidate /\ [][NextValidate]_vars

\* counter values of the two snapshots
CalcPrevious == {0, 20}

CalcCurrent == {0, 5, 20, Pow2(MantBits) + 1, Word - 1}

\* instants of the two snapshots
CalcPreviousAt == {1000}

CalcCurrentAt == {500, 1000, 1050, 1500, 2000, 3000, 4000}

\* valid configs the monitor may hold when it computes a rate
CalcConfigs ==
  { [DefaultConfig EXCEPT !.min_measurement_interval = i, !.max_counter_wrap_threshold = th]
    : i \in {100, 1000}, th \in {10, Pow2(WordBits - 2)} }

\* the same with the invalid configs with_config lets in
CalcAnyConfigs ==
  CalcConfigs \cup
  { [DefaultConfig EXCEPT !.min_measurement_interval = 0, !.max_counter_wrap_threshold = th]
    : th \in {10, Pow2(WordBits - 2)} }

\* a monitor holding a config of cfgs and a previous snapshot, and the
\* snapshot it has just captured
CalcInputs(cfgs) ==
  /\ kind = "calc"
  /\ config \in cfgs
  /\ interface_manager = InterfaceManagerNew(config)
  /\ \E s \in CalcPrevious, r \in CalcPrevious, t \in CalcPreviousAt :
       previous_stats = Some(InterfaceStats(s, r, t))
  /\ \E s \in CalcCurrent, r \in CalcCurrent, t \in CalcCurrentAt :
       arg = InterfaceStats(s, r, t)
  /\ history = <<>>
  /\ max_history_size = 0
  /\ pending = [t \in Tasks |-> Idle]
  /\ now = 0
  /\ ret = [op |-> "new"]
  /\ recorded = <<>>
  /\ NoBridge

InitCalc == CalcInputs(CalcConfigs)

InitCalcAnyConfig == CalcInputs(CalcAnyConfigs)

\* NetworkMonitor::calculate_speed(&current, &previous, current.last_update)
CalculateSpeed ==
  /\ kind = "calc"
  /\ ret' = [op |-> "calculate_speed",
             res |-> calculate_speed(config, arg, previous_stats[1], arg.last_update)]
  /\ UNCHANGED bridge
  /\ UNCHANGED <<kind, config, interface_manager, previous_stats, history,
                 max_history_size, pending, now, arg, recorded>>

NextCalc == CalculateSpeed

SpecCalc == InitCalc /\ [][NextCalc]_vars

SpecCalcAnyConfig == InitCalcAnyConfig /\ [][NextCalc]_vars

(* ------------------------- counter rollover ---------------------------- *)

\* the modelled u32 of the legacy table (dwOutOctets, dwInOctets)
DWord == Pow2(WordBits \div 2)

\* NetworkInterface::from_mib_ifrow: OutOctets and InOctets are u64
from_mib_ifrow(row) ==
  NetworkInterface(row.InterfaceIndex, row.Type, row.Description,
                   row.OutOctets % Word, row.InOctets % Word)

\* NetworkInterface::from_legacy_mib_ifrow: dwOutOctets and dwInOctets are
\* u32 widened with `as u64`
from_legacy_mib_ifrow(row) ==
  NetworkInterface(row.dwIndex, row.dwType, row.bDescr,
                   row.dwOutOctets % DWord, row.dwInOctets % DWord)

\* get_raw_interfaces: the rows of GetIfTable2, or of GetIfTable when
\* GetIfTable2 is not supported
get_raw_interfaces(backend, sent, received) ==
  IF backend = "GetIfTable2"
  THEN Ok(<<from_mib_ifrow([InterfaceIndex |-> 1, Type |-> 6,
                            Description |-> DescEthernet,
                            OutOctets |-> sent, InOctets |-> received])>>)
  ELSE Ok(<<from_legacy_mib_ifrow([dwIndex |-> 1, dwType |-> 6,
                                   bDescr |-> DescEthernet,
                                   dwOutOctets |-> sent, dwInOctets |-> received])>>)

\* width of the adapter's counters under each backend
CounterModulus(backend) == IF backend = "GetIfTable2" THEN Word ELSE DWord

Backends == {"GetIfTable2", "GetIfTable"}

\* distance of the counter from its rollover point at the first snapshot
RolloverHeadroom == 0..5

\* true increments between the two snapshots
RolloverIncrements == 0..8

\* time between the two snapshots
RolloverElapsed == {1000}

\* an adapter whose counters sit near their rollover point, and the true
\* increments of its two counters until the next snapshot
InitRollover ==
  /\ kind = "rollover"
  /\ config = DefaultConfig
  /\ interface_manager = InterfaceManagerNew(config)
  /\ previous_stats = None
  /\ \E b \in Backends, h \in RolloverHeadroom,
        ds \in RolloverIncrements, dr \in RolloverIncrements :
       arg = [backend |-> b,
              sent |-> CounterModulus(b) - 1 - h,
              received |-> CounterModulus(b) - 1 - h,
              upload |-> ds, download |-> dr]
  /\ history = <<>>
  /\ max_history_size = 0
  /\ pending = [t \in Tasks |-> Idle]
  /\ now = 0
  /\ ret = [op |-> "new"]
  /\ recorded = <<>>
  /\ NoBridge

\* NetworkMonitor::measure_speed (Instant): the first snapshot of the adapter
FirstSnapshot ==
  /\ kind = "rollover"
  /\ previous_stats = None
  /\ \E o \in {measure_instant(Monitor, now,
                               get_raw_interfaces(arg.backend, arg.sent, arg.received))} :
       /\ SetMonitor(o.m)
       /\ ret' = [op |-> "first_snapshot", res |-> o.res]
  /\ UNCHANGED bridge
  /\ UNCHANGED <<kind, history, max_history_size, pending, now, arg, recorded>>

\* NetworkMonitor::measure_speed (Instant) after the adapter's counters
\* advanced by the true increments, modulo their width
SecondSnapshot ==
  /\ kind = "rollover"
  /\ previous_stats # None
  /\ ret.op = "first_snapshot"
  /\ \E dt \in RolloverElapsed :
       \E o \in {measure_instant(Monitor, now + dt,
                   get_raw_interfaces(arg.backend,
                     (arg.sent + arg.upload) % CounterModulus(arg.backend),
                     (arg.received + arg.download) % CounterModulus(arg.backend)))} :
         /\ SetMonitor(o.m)
         /\ now' = now + dt
         /\ ret' = [op |-> "second_snapshot", res |-> o.res]
  /\ UNCHANGED bridge
  /\ UNCHANGED <<kind, history, max_history_size, pending, arg, recorded>>

NextRollover == FirstSnapshot \/ SecondSnapshot

SpecRollover == InitRollover /\ [][NextRollover]_vars

(* ------------------------ history aggregation -------------------------- *)

\* time between the epoch of Instant and the construction of the tracker
UptimeAtStart == 100

\* a call that returned v, and a call that panicked
Returned(v) == [returned |-> TRUE, val |-> v]

Panicked == [returned |-> FALSE]

\* Instant::checked_sub: an Instant cannot lie before the epoch
InstantCheckedSub(t, duration) ==
  IF duration > UptimeAtStart + t THEN None ELSE Some(t - duration)

\* history.iter().filter(|speed| speed.timestamp >= cutoff_time)
RecentSpeeds(h, cutoff_time) == SelectSeq(h, LAMBDA speed : speed.timestamp >= cutoff_time)

RECURSIVE MaxByKeyFrom(_, _, _)
\* Iterator::max_by_key(total_bytes_per_sec) over s from index i on with the
\* running maximum best: a later element replaces it unless its key is less
MaxByKeyFrom(s, i, best) ==
  IF i > Len(s) THEN best
  ELSE MaxByKeyFrom(s, i + 1,
                    IF total_bytes_per_sec(s[i]) >= total_bytes_per_sec(best)
                    THEN s[i] ELSE best)

\* Iterator::max_by_key(|speed| speed.total_bytes_per_sec())
MaxByKey(s) == IF s = <<>> THEN None ELSE Some(MaxByKeyFrom(s, 2, s[1]))

\* NetworkSpeedTracker::get_average_speed at instant t
get_average_speed(h, t, duration) ==
  IF h = <<>> THEN Returned(None)
  ELSE IF InstantCheckedSub(t, duration) = None THEN Panicked
  ELSE Only({ IF recent_speeds = <<>> THEN Returned(None)
              ELSE Returned(Some(NetworkSpeed(
                     SumU64(recent_speeds, "upload_bytes_per_sec") \div Len(recent_speeds),
                     SumU64(recent_speeds, "download_bytes_per_sec") \div Len(recent_speeds),
                     t)))
              : recent_speeds \in {RecentSpeeds(h, InstantCheckedSub(t, duration)[1])} })

\* NetworkSpeedTracker::get_peak_speed at instant t
get_peak_speed(h, t, duration) ==
  IF h = <<>> THEN Returned(None)
  ELSE IF InstantCheckedSub(t, duration) = None THEN Panicked
  ELSE Returned(MaxByKey(RecentSpeeds(h, InstantCheckedSub(t, duration)[1])))

\* windows passed to get_average_speed and get_peak_speed
HistoryWindows == {0, 100, 1000}

\* NetworkSpeedTracker::new / with_config
InitHistory == Constructed("tracker", {DefaultConfig, CfgLowThreshold}, 0..MaxCap)

\* NetworkSpeedTracker::get_average_speed
GetAverageSpeed ==
  /\ kind = "tracker"
  /\ \E d \in HistoryWindows :
       ret' = [op |-> "get_average_speed", window |-> d, at |-> now,
               res |-> get_average_speed(history, now, d)]
  /\ UNCHANGED bridge
  /\ UNCHANGED <<kind, config, interface_manager, previous_stats, history,
                 max_history_size, pending, now, arg, recorded>>

\* NetworkSpeedTracker::get_peak_speed
GetPeakSpeed ==
  /\ kind = "tracker"
  /\ \E d \in HistoryWindows :
       ret' = [op |-> "get_peak_speed", window |-> d, at |-> now,
               res |-> get_peak_speed(history, now, d)]
  /\ UNCHANGED bridge
  /\ UNCHANGED <<kind, config, interface_manager, previous_stats, history,
                 max_history_size, pending, now, arg, recorded>>

\* a NetworkSpeedTracker whose caller also asks for averages and peaks
NextHistory ==
  \/ Tick
  \/ TrackSpeed
  \/ ClearHistory
  \/ TrackerReset
  \/ GetAverageSpeed
  \/ GetPeakSpeed

SpecHistory == InitHistory /\ [][NextHistory]_vars

\* a Mutex whose holder panicked
Poisoned == [owner |-> None, poisoned |-> TRUE]

\* what the caller of a bridged history query gets: a poisoned lock and a
\* panicked closure both become None
QueryResult(lock, r) == IF lock.poisoned \/ ~r.returned THEN None ELSE r.val

\* AsyncNetworkSpeedTracker::get_average_speed: one closure under the
\* history lock
AsyncGetAverageSpeed(task) ==
  /\ kind = "async_tracker"
  /\ pending[task] = Idle
  /\ \E d \in HistoryWindows :
       \E r \in {get_average_speed(history, now, d)} :
         /\ history_lock' = IF ~history_lock.poisoned /\ ~r.returned
                            THEN Poisoned ELSE history_lock
         /\ ret' = [op |-> "async_get_average_speed", window |-> d, at |-> now,
                    res |-> QueryResult(history_lock, r)]
  /\ UNCHANGED <<inner, channel, producer>>
  /\ UNCHANGED <<kind, config, interface_manager, previous_stats, history,
                 max_history_size, pending, now, arg, recorded>>

\* AsyncNetworkSpeedTracker::get_peak_speed: one closure under the history
\* lock
AsyncGetPeakSpeed(task) ==
  /\ kind = "async_tracker"
  /\ pending[task] = Idle
  /\ \E d \in HistoryWindows :
       \E r \in {get_peak_speed(history, now, d)} :
         /\ history_lock' = IF ~history_lock.poisoned /\ ~r.returned
                            THEN Poisoned ELSE history_lock
         /\ ret' = [op |-> "async_get_peak_speed", window |-> d, at |-> now,
                    res |-> QueryResult(history_lock, r)]
  /\ UNCHANGED <<inner, channel, producer>>
  /\ UNCHANGED <<kind, config, interface_manager, previous_stats, history,
                 max_history_size, pending, now, arg, recorded>>

\* AsyncNetworkSpeedTracker::new / with_config
InitAsyncHistory == Constructed("async_tracker", {DefaultConfig}, {1})

\* an AsyncNetworkSpeedTracker whose callers also ask for averages and peaks
NextAsyncHistory ==
  \/ Tick
  \/ \E task \in Tasks : AsyncTrackMeasure(task)
  \/ \E task \in Tasks : AsyncTrackAppend(task)
  \/ \E task \in Tasks : AsyncResetMonitor(task)
  \/ \E task \in Tasks : AsyncClearHistory(task)
  \/ \E task \in Tasks : AsyncGetAverageSpeed(task)
  \/ \E task \in Tasks : AsyncGetPeakSpeed(task)

SpecAsyncHistory == InitAsyncHistory /\ [][NextAsyncHistory]_vars

\* a tracker of either kind with its queries
SpecHistories ==
  (InitHistory \/ InitAsyncHistory) /\ [][NextHistory \/ NextAsyncHistory]_vars

(* ------------------------- concurrency bridge -------------------------- *)
\* An AsyncNetworkMonitor shared by NumTasks callers and the producer task of
\* monitor_with_channel. Every call runs a blocking closure that takes the
\* mutex `inner`, works on the NetworkMonitor inside and drops the guard at
\* its end. The closure of measure_speed in Instant mode is followed step by
\* step (capture, compute, update), the other closures run in one step and
\* keep the guard until their release step.

\* the owner recorded in the mutex while the producer's closure runs
ProducerTask == 0

\* a second accepted adapter
Eth2(s, r) == NetworkInterface(3, 6, DescEthernet, s, r)

\* a table whose byte counters add up to more than u64::MAX
OverflowTable == <<Eth(Word - 1, Word - 1), Eth2(1, 1)>>

\* outcomes of get_raw_interfaces() seen by the bridged measurements
BridgeEnumResults ==
  {Err(WindowsApi), Ok(<<Eth(0, 0), Lo>>), Ok(<<Eth(20, 40), Lo>>), Ok(OverflowTable)}

RECURSIVE SumNat(_, _)
\* the sum of field f without wrapping
SumNat(s, f) == IF s = <<>> THEN 0 ELSE s[1][f] + SumNat(Tail(s), f)

\* Iterator::sum::<u64>() in a build with overflow checks: get_total_traffic
\* panics when a sum of the accepted adapters' counters passes u64::MAX
CapturePanics(mgr, enumerated) ==
  /\ arg.overflow_checks
  /\ enumerated.ok
  /\ \E a \in {get_active_interfaces(mgr, enumerated)} :
       /\ a.res.ok
       /\ \/ SumNat(a.res.val, "bytes_sent") >= Word
          \/ SumNat(a.res.val, "bytes_received") >= Word

\* configs passed to update_config through the bridge
BridgeConfigs == {DefaultConfig, CfgLowThreshold, CfgMinZero}

\* measurement_duration passed to measure_speed_with_delay
BridgeDelays == {100}

\* what the environment does during one bridged windowed measurement
BridgeWindowEnvs ==
  {<<e1, 0, e2>> : e1 \in {Ok(<<Eth(0, 0), Lo>>)},
                   e2 \in {Err(WindowsApi), Ok(<<Eth(20, 40), Lo>>)}}

\* the run keeps count of the producer's results: each message carries the
\* whole Result and its number in production order, and the channel records
\* how many were produced and which one the receiver took last
Numbered == "numbered" \in DOMAIN arg

\* interval_duration and buffer_size passed to monitor_with_channel; the
\* runs that number the messages also use a buffer of two
ChannelIntervals == {0, 100}

BufferSizes == IF Numbered THEN {0, 1, 2} ELSE {0, 1}

\* AsyncNetworkMonitor::new with the run's settings in args
BridgeConstructed(args) ==
  /\ kind = "async_monitor"
  /\ config = DefaultConfig
  /\ interface_manager = InterfaceManagerNew(DefaultConfig)
  /\ previous_stats = None
  /\ history = <<>>
  /\ max_history_size = 0
  /\ pending = [t \in Tasks |-> Idle]
  /\ now = 0
  /\ ret = [op |-> "new"]
  /\ arg \in args
  /\ recorded = <<>>
  /\ NoBridge

\* AsyncNetworkMonitor::new, in a build with or without overflow checks
InitBridge == BridgeConstructed([overflow_checks : BOOLEAN])

\* a Result as far as the bridge looks at it: Ok or Err
Message(res) == IF res.ok THEN "Ok" ELSE "Err"

\* the position of a closure that holds the guard
InsidePcs == {"capture", "compute", "update", "release"}

\* MutexGuard dropped at the end of the closure
Unlock(lock) == [lock EXCEPT !.owner = None]

\* MutexGuard dropped while the closure unwinds from a panic
UnlockPanicking(lock) == [owner |-> None, poisoned |-> TRUE]

\* a lock taken while another closure may hold the guard
CanLock_unguarded(lock) == TRUE

\* inner_clone.lock() can return once nobody holds the mutex
CanLock(lock) == lock.owner = None

\* the closure of task can take the mutex
LockFree(task) == CanLock(inner)

\* any bridged call on a poisoned mutex: lock() fails, the closures that
\* return a Result map it to InterfaceOperationFailed, reset does nothing
\* and get_config returns NetworkMonitorConfig::default() ("Default")
BridgePoisoned(task) ==
  /\ kind = "async_monitor"
  /\ pending[task] = Idle
  /\ LockFree(task)
  /\ inner.poisoned
  /\ \E op \in {"measure_speed", "measure_speed_with_delay",
                "get_instantaneous_speed", "update_config", "reset",
                "get_config"} :
       ret' = [op |-> op, task |-> task,
               res |-> IF op = "get_config" THEN "Default"
                       ELSE Message(IF op = "reset" THEN Ok(<<>>)
                                    ELSE Err(InterfaceOperationFailed))]
  /\ UNCHANGED bridge
  /\ UNCHANGED <<kind, config, interface_manager, previous_stats, history,
                 max_history_size, pending, now, arg, recorded>>

\* AsyncNetworkMonitor::measure_speed: the closure takes the mutex
BridgeMeasureSpeed(task) ==
  /\ kind = "async_monitor"
  /\ pending[task] = Idle
  /\ LockFree(task)
  /\ ~inner.poisoned
  /\ config.precision.mode = "Instant"
  /\ inner' = [inner EXCEPT !.owner = Some(task)]
  /\ pending' = [pending EXCEPT ![task] = [pc |-> "capture"]]
  /\ UNCHANGED <<history_lock, channel, producer>>
  /\ UNCHANGED <<kind, config, interface_manager, previous_stats, history,
                 max_history_size, now, ret, arg, recorded>>

\* measure_instant: self.get_current_stats()
BridgeCapture(task) ==
  /\ pending[task].pc = "capture"
  /\ \E e \in BridgeEnumResults :
       IF CapturePanics(interface_manager, e)
       THEN /\ interface_manager' = get_active_interfaces(interface_manager, e).mgr
            /\ inner' = UnlockPanicking(inner)
            /\ pending' = [pending EXCEPT ![task] = Idle]
            /\ ret' = [op |-> "measure_speed", task |-> task,
                       res |-> Message(Err(InterfaceOperationFailed))]
       ELSE \E cs \in {get_current_stats(Monitor, now, e)} :
              /\ interface_manager' = cs.m.interface_manager
              /\ pending' = [pending EXCEPT ![task] =
                               IF cs.res.ok
                               THEN [pc |-> "compute", current |-> cs.res.val]
                               ELSE [pc |-> "release", op |-> "measure_speed",
                                     res |-> Message(cs.res)]]
              /\ UNCHANGED <<inner, ret>>
  /\ UNCHANGED <<history_lock, channel, producer>>
  /\ UNCHANGED <<kind, config, previous_stats, history, max_history_size, now,
                 arg, recorded>>

\* measure_instant: self.calculate_speed(...) against previous_stats, or the
\* zero speed of a cold start
BridgeCompute(task) ==
  /\ pending[task].pc = "compute"
  /\ \E speed \in {IF previous_stats # None
                   THEN calculate_speed(config, pending[task].current, previous_stats[1],
                                        pending[task].current.last_update)
                   ELSE Ok(NetworkSpeed(0, 0, now))} :
       pending' = [pending EXCEPT ![task] =
                     IF speed.ok
                     THEN [pc |-> "update", current |-> pending[task].current,
                           speed |-> speed.val]
                     ELSE [pc |-> "release", op |-> "measure_speed",
                           res |-> Message(speed)]]
  /\ UNCHANGED bridge
  /\ UNCHANGED <<kind, config, interface_manager, previous_stats, history,
                 max_history_size, now, ret, arg, recorded>>

\* measure_instant: self.previous_stats = Some(current_stats)
BridgeUpdate(task) ==
  /\ pending[task].pc = "update"
  /\ previous_stats' = Some(pending[task].current)
  /\ pending' = [pending EXCEPT ![task] =
                   [pc |-> "release", op |-> "measure_speed",
                    res |-> Message(Ok(pending[task].speed))]]
  /\ UNCHANGED bridge
  /\ UNCHANGED <<kind, config, interface_manager, history, max_history_size, now,
                 ret, arg, recorded>>

\* the closure returns: the guard is dropped and the caller gets the result
BridgeRelease(task) ==
  /\ pending[task].pc = "release"
  /\ inner' = Unlock(inner)
  /\ pending' = [pending EXCEPT ![task] = Idle]
  /\ ret' = [op |-> pending[task].op, task |-> task, res |-> pending[task].res]
  /\ UNCHANGED <<history_lock, channel, producer>>
  /\ UNCHANGED <<kind, config, interface_manager, previous_stats, history,
                 max_history_size, now, arg, recorded>>

\* task takes the mutex and its closure runs to the monitor m and result res
BridgeRun(task, op, m, res) ==
  /\ SetMonitor(m)
  /\ inner' = [inner EXCEPT !.owner = Some(task)]
  /\ pending' = [pending EXCEPT ![task] =
                   [pc |-> "release", op |-> op, res |-> Message(res)]]

\* AsyncNetworkMonitor::measure_speed_with_delay
BridgeMeasureSpeedWithDelay(task) ==
  /\ kind = "async_monitor"
  /\ pending[task] = Idle
  /\ LockFree(task)
  /\ ~inner.poisoned
  /\ \E d \in BridgeDelays, w \in BridgeWindowEnvs :
       \E o \in {measure_speed_blocking(Monitor, now, d, w)} :
         /\ o.t <= MaxNow
         /\ now' = o.t
         /\ BridgeRun(task, "measure_speed_with_delay", o.m, o.res)
  /\ UNCHANGED <<history_lock, channel, producer>>
  /\ UNCHANGED <<kind, history, max_history_size, ret, arg, recorded>>

\* AsyncNetworkMonitor::get_instantaneous_speed
BridgeGetInstantaneousSpeed(task) ==
  /\ kind = "async_monitor"
  /\ pending[task] = Idle
  /\ LockFree(task)
  /\ ~inner.poisoned
  /\ \E o \in get_instantaneous_speed(Monitor, now) :
       /\ o.t <= MaxNow
       /\ now' = o.t
       /\ BridgeRun(task, "get_instantaneous_speed", o.m, o.res)
  /\ UNCHANGED <<history_lock, channel, producer>>
  /\ UNCHANGED <<kind, history, max_history_size, ret, arg, recorded>>

\* AsyncNetworkMonitor::reset
BridgeReset(task) ==
  /\ kind = "async_monitor"
  /\ pending[task] = Idle
  /\ LockFree(task)
  /\ ~inner.poisoned
  /\ BridgeRun(task, "reset", MonitorReset(Monitor), Ok(<<>>))
  /\ UNCHANGED <<history_lock, channel, producer>>
  /\ UNCHANGED <<kind, history, max_history_size, now, ret, arg, recorded>>

\* AsyncNetworkMonitor::update_config
BridgeUpdateConfig(task) ==
  /\ kind = "async_monitor"
  /\ pending[task] = Idle
  /\ LockFree(task)
  /\ ~inner.poisoned
  /\ \E c \in BridgeConfigs :
       \E o \in {update_config(Monitor, c)} :
         BridgeRun(task, "update_config", o.m, o.res)
  /\ UNCHANGED <<history_lock, channel, producer>>
  /\ UNCHANGED <<kind, history, max_history_size, now, ret, arg, recorded>>

\* AsyncNetworkMonitor::get_config: the closure clones the config under the
\* lock and the caller gets the clone ("Config")
BridgeGetConfig(task) ==
  /\ kind = "async_monitor"
  /\ pending[task] = Idle
  /\ LockFree(task)
  /\ ~inner.poisoned
  /\ inner' = [inner EXCEPT !.owner = Some(task)]
  /\ pending' = [pending EXCEPT ![task] =
                   [pc |-> "release", op |-> "get_config", res |-> "Config"]]
  /\ UNCHANGED <<history_lock, channel, producer>>
  /\ UNCHANGED <<kind, config, interface_manager, previous_stats, history,
                 max_history_size, now, ret, arg, recorded>>

\* most results a numbering producer hands out
MaxMessages == 3

\* mpsc::channel(buffer_size)
NewChannel(buffer_size) ==
  IF Numbered
  THEN [open |-> TRUE, capacity |-> buffer_size, queue |-> <<>>,
        produced |-> 0, received |-> 0, last_at |-> 0]
  ELSE [open |-> TRUE, capacity |-> buffer_size, queue |-> <<>>]

\* the result of the producer's current measurement as it will be sent
Packed(res) ==
  IF Numbered THEN [n |-> channel.produced + 1, res |-> res] ELSE Message(res)

\* the channel once the producer's current measurement has its result
Counted(ch) == IF Numbered THEN [ch EXCEPT !.produced = @ + 1] ELSE ch

\* the channel once the receiver took the oldest message
Taken(ch) ==
  IF Numbered
  THEN [ch EXCEPT !.queue = Tail(@),
                  !.received = Head(ch.queue).n,
                  !.last_at = IF Head(ch.queue).res.ok
                              THEN Head(ch.queue).res.val.timestamp ELSE @]
  ELSE [ch EXCEPT !.queue = Tail(@)]

\* AsyncNetworkMonitor::monitor_with_channel: mpsc::channel(buffer_size)
\* panics for a zero buffer; otherwise the producer task is spawned and the
\* receiver is returned
MonitorWithChannel ==
  /\ kind = "async_monitor"
  /\ producer = NoProducer
  /\ \E interval_duration \in ChannelIntervals, buffer_size \in BufferSizes :
       IF buffer_size = 0
       THEN /\ ret' = [op |-> "monitor_with_channel", res |-> "Panicked"]
            /\ UNCHANGED <<channel, producer>>
       ELSE /\ channel' = NewChannel(buffer_size)
            /\ producer' = [pc |-> "start", interval |-> interval_duration]
            /\ ret' = [op |-> "monitor_with_channel", res |-> "Ok"]
  /\ UNCHANGED <<inner, history_lock>>
  /\ UNCHANGED <<kind, config, interface_manager, previous_stats, history,
                 max_history_size, pending, now, arg, recorded>>

\* the spawned task begins: interval(interval_duration) panics for a zero
\* period, which ends the task
ProducerStart ==
  /\ producer.pc = "start"
  /\ producer' = IF producer.interval = 0
                 THEN [pc |-> "done", panicked |-> TRUE]
                 ELSE [pc |-> "tick"]
  /\ UNCHANGED <<inner, history_lock, channel>>
  /\ UNCHANGED <<kind, config, interface_manager, previous_stats, history,
                 max_history_size, pending, now, ret, arg, recorded>>

\* interval_timer.tick().await
ProducerTick ==
  /\ producer.pc = "tick"
  /\ Numbered => channel.produced < MaxMessages
  /\ producer' = [pc |-> "lock"]
  /\ UNCHANGED <<inner, history_lock, channel>>
  /\ UNCHANGED <<kind, config, interface_manager, previous_stats, history,
                 max_history_size, pending, now, ret, arg, recorded>>

\* the producer's closure calls monitor_clone.lock()
ProducerLock ==
  /\ producer.pc = "lock"
  /\ CanLock(inner)
  /\ IF inner.poisoned
     THEN /\ producer' = [pc |-> "send", result |-> Packed(Err(InterfaceOperationFailed))]
          /\ channel' = Counted(channel)
          /\ UNCHANGED inner
     ELSE /\ producer' = [pc |-> "inside"]
          /\ inner' = [inner EXCEPT !.owner = Some(ProducerTask)]
          /\ UNCHANGED channel
  /\ UNCHANGED history_lock
  /\ UNCHANGED <<kind, config, interface_manager, previous_stats, history,
                 max_history_size, pending, now, ret, arg, recorded>>

\* a producer that measures with a guard it keeps across the send
ProducerMeasure_keeps_guard ==
  /\ producer.pc = "inside"
  /\ \/ \E e \in BridgeEnumResults :
          /\ config.precision.mode = "Instant"
          /\ IF CapturePanics(interface_manager, e)
             THEN /\ interface_manager' = get_active_interfaces(interface_manager, e).mgr
                  /\ UNCHANGED <<config, previous_stats>>
                  /\ inner' = UnlockPanicking(inner)
                  /\ producer' = [pc |-> "send",
                                  result |-> Packed(Err(InterfaceOperationFailed))]
             ELSE \E o \in {measure_instant(Monitor, now, e)} :
                    /\ SetMonitor(o.m)
                    /\ UNCHANGED inner
                    /\ producer' = [pc |-> "send", result |-> Packed(o.res)]
          /\ UNCHANGED now
     \/ \E o \in measure_speed(Monitor, now) :
          /\ config.precision.mode # "Instant"
          /\ o.t <= MaxNow
          /\ SetMonitor(o.m)
          /\ now' = o.t
          /\ UNCHANGED inner
          /\ producer' = [pc |-> "send", result |-> Packed(o.res)]
  /\ channel' = Counted(channel)
  /\ UNCHANGED history_lock
  /\ UNCHANGED <<kind, history, max_history_size, pending, ret, arg, recorded>>

\* the producer's closure runs mon.measure_speed() and drops the guard; a
\* panic becomes the JoinError that map_err turns into an Err
ProducerMeasure ==
  /\ producer.pc = "inside"
  /\ \/ \E e \in BridgeEnumResults :
          /\ config.precision.mode = "Instant"
          /\ IF CapturePanics(interface_manager, e)
             THEN /\ interface_manager' = get_active_interfaces(interface_manager, e).mgr
                  /\ UNCHANGED <<config, previous_stats>>
                  /\ inner' = UnlockPanicking(inner)
                  /\ producer' = [pc |-> "send",
                                  result |-> Packed(Err(InterfaceOperationFailed))]
             ELSE \E o \in {measure_instant(Monitor, now, e)} :
                    /\ SetMonitor(o.m)
                    /\ inner' = Unlock(inner)
                    /\ producer' = [pc |-> "send", result |-> Packed(o.res)]
          /\ UNCHANGED now
     \/ \E o \in measure_speed(Monitor, now) :
          /\ config.precision.mode # "Instant"
          /\ o.t <= MaxNow
          /\ SetMonitor(o.m)
          /\ now' = o.t
          /\ inner' = Unlock(inner)
          /\ producer' = [pc |-> "send", result |-> Packed(o.res)]
  /\ channel' = Counted(channel)
  /\ UNCHANGED history_lock
  /\ UNCHANGED <<kind, history, max_history_size, pending, ret, arg, recorded>>

\* a producer that gives up a result when the channel is full (try_send)
ProducerSend_drops_when_full ==
  /\ producer.pc = "send"
  /\ IF ~channel.open
     THEN /\ producer' = [pc |-> "done", panicked |-> FALSE]
          /\ UNCHANGED channel
     ELSE /\ channel' = IF Len(channel.queue) < channel.capacity
                        THEN [channel EXCEPT !.queue = Append(@, producer.result)]
                        ELSE channel
          /\ producer' = [pc |-> "tick"]
  /\ UNCHANGED <<inner, history_lock>>
  /\ UNCHANGED <<kind, config, interface_manager, previous_stats, history,
                 max_history_size, pending, now, ret, arg, recorded>>

\* a producer that goes on with its loop when send fails
ProducerSend_ignores_error ==
  /\ producer.pc = "send"
  /\ IF ~channel.open
     THEN /\ producer' = [pc |-> "tick"]
          /\ UNCHANGED channel
     ELSE /\ Len(channel.queue) < channel.capacity
          /\ channel' = [channel EXCEPT !.queue = Append(@, producer.result)]
          /\ producer' = [pc |-> "tick"]
  /\ UNCHANGED <<inner, history_lock>>
  /\ UNCHANGED <<kind, config, interface_manager, previous_stats, history,
                 max_history_size, pending, now, ret, arg, recorded>>

\* tx.send(result).await: an error once the receiver is gone (the loop
\* breaks), otherwise the message is queued as soon as there is room
ProducerSend ==
  /\ producer.pc = "send"
  /\ IF ~channel.open
     THEN /\ producer' = [pc |-> "done", panicked |-> FALSE]
          /\ UNCHANGED channel
     ELSE /\ Len(channel.queue) < channel.capacity
          /\ channel' = [channel EXCEPT !.queue = Append(@, producer.result)]
          /\ producer' = [pc |-> "tick"]
  /\ UNCHANGED <<inner, history_lock>>
  /\ UNCHANGED <<kind, config, interface_manager, previous_stats, history,
                 max_history_size, pending, now, ret, arg, recorded>>

\* rx.recv().await takes the oldest message
Receive ==
  /\ channel.open
  /\ channel.queue # <<>>
  /\ channel' = Taken(channel)
  /\ ret' = [op |-> "recv", res |-> Head(channel.queue)]
  /\ UNCHANGED <<inner, history_lock, producer>>
  /\ UNCHANGED <<kind, config, interface_manager, previous_stats, history,
                 max_history_size, pending, now, arg, recorded>>

\* the receiver is dropped: the channel closes and its messages are lost
DropReceiver ==
  /\ channel.open
  /\ channel' = [channel EXCEPT !.open = FALSE, !.queue = <<>>]
  /\ ret' = [op |-> "drop_receiver",
             blocked |-> /\ producer.pc = "send"
                         /\ Len(channel.queue) = channel.capacity]
  /\ UNCHANGED <<inner, history_lock, producer>>
  /\ UNCHANGED <<kind, config, interface_manager, previous_stats, history,
                 max_history_size, pending, now, arg, recorded>>

\* the producer of monitor_with_channel, its receiver and callers of
\* measure_speed on the same monitor
NextChannel ==
  \/ MonitorWithChannel
  \/ ProducerStart
  \/ ProducerTick
  \/ ProducerLock
  \/ ProducerMeasure
  \/ ProducerSend
  \/ Receive
  \/ DropReceiver
  \/ \E task \in Tasks : BridgePoisoned(task)
  \/ \E task \in Tasks : BridgeMeasureSpeed(task)
  \/ \E task \in Tasks : BridgeCapture(task)
  \/ \E task \in Tasks : BridgeCompute(task)
  \/ \E task \in Tasks : BridgeUpdate(task)
  \/ \E task \in Tasks : BridgeRelease(task)

SpecChannel == InitBridge /\ [][NextChannel]_vars

\* the same system under the scheduling the runtime gives: the spawned
\* producer task and every blocking closure keep running (weak fairness of
\* their steps), and a closure waiting in lock() gets the mutex at one of
\* the releases that keep coming (strong fairness of ProducerLock)
SpecChannelFair ==
  /\ InitBridge
  /\ [][NextChannel]_vars
  /\ WF_vars(ProducerStart)
  /\ WF_vars(ProducerTick)
  /\ SF_vars(ProducerLock)
  /\ WF_vars(ProducerMeasure)
  /\ WF_vars(ProducerSend)
  /\ \A task \in Tasks : WF_vars(BridgeCapture(task))
  /\ \A task \in Tasks : WF_vars(BridgeCompute(task))
  /\ \A task \in Tasks : WF_vars(BridgeUpdate(task))
  /\ \A task \in Tasks : WF_vars(BridgeRelease(task))

\* every call of the bridge
NextBridge ==
  \/ NextChannel
  \/ \E task \in Tasks : BridgeMeasureSpeedWithDelay(task)
  \/ \E task \in Tasks : BridgeGetInstantaneousSpeed(task)
  \/ \E task \in Tasks : BridgeReset(task)
  \/ \E task \in Tasks : BridgeUpdateConfig(task)
  \/ \E task \in Tasks : BridgeGetConfig(task)

SpecBridge == InitBridge /\ [][NextBridge]_vars

(* --------------------------- message order ----------------------------- *)

\* AsyncNetworkMonitor::new for a run that numbers the producer's results
InitOrdering == BridgeConstructed([overflow_checks : BOOLEAN, numbered : {TRUE}])

\* the producer of monitor_with_channel and its receiver while time passes
NextOrdering ==
  \/ Tick
  \/ MonitorWithChannel
  \/ ProducerStart
  \/ ProducerTick
  \/ ProducerLock
  \/ ProducerMeasure
  \/ ProducerSend
  \/ Receive
  \/ DropReceiver

SpecOrdering == InitOrdering /\ [][NextOrdering]_vars

(* --------------------------- sample collection ------------------------- *)

\* the task that calls collect_samples and measure_average_speed
Collector == 1

\* most samples asked of collect_samples
MaxSamples == 3

\* most collecting calls of a run; recorded lists the calls made
MaxCalls == 2

\* Duration::as_millis of a duration given in microseconds
AsMillis(us) == us \div 1000

\* the first millisecond instant at or after a microsecond instant
MillisCeil(us) == (us + 999) \div 1000

\* sample_count and interval_duration (microseconds) passed to collect_samples
SampleCounts == 0..MaxSamples

CollectIntervals == {0, 50000, 100000}

\* <<measurement_duration, sample_interval>> (microseconds) passed to
\* measure_average_speed
AverageArgs ==
  {<<100000, 0>>, <<1000, 500>>, <<3000, 1500>>, <<50000, 100000>>,
   <<100000, 50000>>, <<200000, 100000>>}

\* outcomes of get_raw_interfaces() seen by the collector's measurements
CollectEnumResults == BridgeEnumResults \cup {Ok(<<Eth(40, 80), Lo>>)}

\* the loop of collect_samples before its first tick at instant t; the first
\* tick of a tokio interval completes at once
Collecting(op, args, n, interval_duration, t) ==
  [pc |-> "tick", op |-> op, args |-> args, n |-> n,
   interval |-> interval_duration, i |-> 0, samples |-> <<>>,
   attempts |-> <<>>, deadline |-> t * 1000]

\* the call record while the collector's call runs
InProgress == [op |-> "in progress"]

\* what a collector's call hands back
CollectReturn(task, res, attempts) ==
  [op |-> pending[task].op, task |-> task, args |-> pending[task].args,
   attempts |-> attempts, at |-> now, res |-> res]

\* MissedTickBehavior::Skip: the deadline after a tick that was due at
\* timeout and completed at t (microseconds)
NextDeadline(timeout, period, t) ==
  IF t > timeout + 5000
  THEN t + period - ((t - timeout) % period)
  ELSE timeout + period

\* AsyncNetworkMonitor::collect_samples: interval(interval_duration) panics
\* for a zero period
CollectSamples(task) ==
  /\ kind = "async_monitor"
  /\ pending[task] = Idle
  /\ Len(recorded) < MaxCalls
  /\ recorded' = Append(recorded, "collect_samples")
  /\ \E n \in SampleCounts, d \in CollectIntervals :
       IF d = 0
       THEN /\ ret' = [op |-> "collect_samples", task |-> task, args |-> <<n, d>>,
                       attempts |-> <<>>, at |-> now, res |-> Panicked]
            /\ UNCHANGED pending
       ELSE /\ pending' = [pending EXCEPT ![task] =
                             Collecting("collect_samples", <<n, d>>, n, d, now)]
            /\ ret' = InProgress
  /\ UNCHANGED bridge
  /\ UNCHANGED <<kind, config, interface_manager, previous_stats, history,
                 max_history_size, now, arg>>

\* AsyncNetworkMonitor::measure_average_speed up to the call of
\* collect_samples: the division of the two as_millis() values panics when
\* sample_interval is shorter than a millisecond
MeasureAverageSpeed(task) ==
  /\ kind = "async_monitor"
  /\ pending[task] = Idle
  /\ Len(recorded) < MaxCalls
  /\ recorded' = Append(recorded, "measure_average_speed")
  /\ \E a \in AverageArgs :
       IF AsMillis(a[2]) = 0
       THEN /\ ret' = [op |-> "measure_average_speed", task |-> task, args |-> a,
                       attempts |-> <<>>, at |-> now, res |-> Panicked]
            /\ UNCHANGED pending
       ELSE IF AsMillis(a[1]) \div AsMillis(a[2]) = 0
       THEN /\ ret' = [op |-> "measure_average_speed", task |-> task, args |-> a,
                       attempts |-> <<>>, at |-> now,
                       res |-> Returned(Err(InvalidConfiguration(
                         "measurement_duration must be greater than sample_interval")))]
            /\ UNCHANGED pending
       ELSE /\ pending' = [pending EXCEPT ![task] =
                             Collecting("measure_average_speed", a,
                                        AsMillis(a[1]) \div AsMillis(a[2]), a[2], now)]
            /\ ret' = InProgress
  /\ UNCHANGED bridge
  /\ UNCHANGED <<kind, config, interface_manager, previous_stats, history,
                 max_history_size, now, arg>>

\* collect_samples: interval_timer.tick().await
CollectTick(task) ==
  /\ pending[task].pc = "tick"
  /\ pending[task].i < pending[task].n
  /\ \E late \in Oversleep :
       \E t \in {(IF now >= MillisCeil(pending[task].deadline)
                  THEN now ELSE MillisCeil(pending[task].deadline)) + late} :
         /\ t <= MaxNow
         /\ now' = t
         /\ pending' = [pending EXCEPT ![task].pc = "measure",
                                       ![task].deadline =
                                         NextDeadline(@, pending[task].interval, t * 1000)]
  /\ UNCHANGED bridge
  /\ UNCHANGED <<kind, config, interface_manager, previous_stats, history,
                 max_history_size, ret, arg, recorded>>

\* a loop that skips every failed measurement
Collected_skips_every_error(task, res) ==
  /\ pending' = [pending EXCEPT ![task].pc = "tick",
                                ![task].i = @ + 1,
                                ![task].samples = IF res.ok THEN Append(@, res.val) ELSE @,
                                ![task].attempts = Append(@, res)]
  /\ UNCHANGED ret

\* collect_samples: the match on the result of self.measure_speed().await
Collected(task, res) ==
  IF res.ok \/ res.err.kind = "InsufficientTimeElapsed"
  THEN /\ pending' = [pending EXCEPT ![task].pc = "tick",
                                     ![task].i = @ + 1,
                                     ![task].samples = IF res.ok THEN Append(@, res.val) ELSE @,
                                     ![task].attempts = Append(@, res)]
       /\ UNCHANGED ret
  ELSE /\ pending' = [pending EXCEPT ![task] = Idle]
       /\ ret' = CollectReturn(task, Returned(res), Append(pending[task].attempts, res))

\* collect_samples: self.measure_speed().await, the bridged measurement; a
\* poisoned mutex and a panic of the closure come back as
\* InterfaceOperationFailed
CollectMeasure(task) ==
  /\ pending[task].pc = "measure"
  /\ CanLock(inner)
  /\ config.precision.mode = "Instant"
  /\ \E e \in CollectEnumResults :
       IF inner.poisoned
       THEN /\ Collected(task, Err(InterfaceOperationFailed))
            /\ UNCHANGED <<inner, config, interface_manager, previous_stats>>
       ELSE IF CapturePanics(interface_manager, e)
       THEN /\ interface_manager' = get_active_interfaces(interface_manager, e).mgr
            /\ inner' = UnlockPanicking(inner)
            /\ Collected(task, Err(InterfaceOperationFailed))
            /\ UNCHANGED <<config, previous_stats>>
       ELSE \E o \in {measure_instant(Monitor, now, e)} :
              /\ SetMonitor(o.m)
              /\ Collected(task, o.res)
              /\ UNCHANGED inner
  /\ UNCHANGED <<history_lock, channel, producer>>
  /\ UNCHANGED <<kind, history, max_history_size, now, arg, recorded>>

\* a collection that returns an empty list
collect_result_empty_ok(samples, interval_duration) == Ok(samples)

\* collect_samples after the loop
collect_result(samples, interval_duration) ==
  IF samples = <<>>
  THEN Err(InsufficientTimeElapsed(AsMillis(interval_duration), 0))
  ELSE Ok(samples)

\* measure_average_speed after collect_samples returned samples: each
\* sum::<u64>() panics on overflow in a build with overflow checks and wraps
\* otherwise
average_speed(samples, t) ==
  IF /\ arg.overflow_checks
     /\ \/ SumNat(samples, "upload_bytes_per_sec") >= Word
        \/ SumNat(samples, "download_bytes_per_sec") >= Word
  THEN Panicked
  ELSE Returned(Ok(NetworkSpeed(
         (SumNat(samples, "upload_bytes_per_sec") % Word) \div Len(samples),
         (SumNat(samples, "download_bytes_per_sec") % Word) \div Len(samples), t)))

\* the loop of collect_samples is over: the call returns, and
\* measure_average_speed propagates a failure or averages
CollectFinish(task) ==
  /\ pending[task].pc = "tick"
  /\ pending[task].i = pending[task].n
  /\ \E c \in {collect_result(pending[task].samples, pending[task].interval)} :
       ret' = CollectReturn(task,
                IF pending[task].op = "collect_samples" \/ ~c.ok
                THEN Returned(c)
                ELSE average_speed(c.val, now),
                pending[task].attempts)
  /\ pending' = [pending EXCEPT ![task] = Idle]
  /\ UNCHANGED bridge
  /\ UNCHANGED <<kind, config, interface_manager, previous_stats, history,
                 max_history_size, now, arg, recorded>>

\* AsyncNetworkMonitor::with_config, in a build with or without overflow
\* checks
InitCollect ==
  /\ kind = "async_monitor"
  /\ \E c \in {DefaultConfig, CfgMinZero} :
       /\ config = c
       /\ interface_manager = InterfaceManagerNew(c)
  /\ previous_stats = None
  /\ history = <<>>
  /\ max_history_size = 0
  /\ pending = [t \in Tasks |-> Idle]
  /\ now = 0
  /\ ret = [op |-> "new"]
  /\ arg \in [overflow_checks : BOOLEAN]
  /\ recorded = <<>>
  /\ NoBridge

\* one task makes one collecting call after the other; time passes at the
\* ticks of the calls
NextCollect ==
  \/ CollectSamples(Collector)
  \/ MeasureAverageSpeed(Collector)
  \/ CollectTick(Collector)
  \/ CollectMeasure(Collector)
  \/ CollectFinish(Collector)

SpecCollect == InitCollect /\ [][NextCollect]_vars

(* --------------------------- interface filter -------------------------- *)

\* include and exclude lists handed to the filter
FilterIndexLists == {<<>>, <<1, 3>>}

FilterPatternLists == {<<>>, <<<<"E", "T", "H">>>>, <<<<"p", "a", "n">>, <<"W", "i", "n">>>>}

FilterTypeLists == {<<>>, <<24>>}

FilterNameLists == {<<>>, <<<<"N", "E", "T">>>>, <<<<"l", "o", "o", "p">>, <<"T", "A", "P">>>>}

FilterConfigs ==
  { [DefaultConfig EXCEPT !.include_interface_indices = idx,
                          !.include_interface_name_patterns = pat,
                          !.exclude_loopback = fl[1],
                          !.exclude_virtual = fl[2],
                          !.exclude_bluetooth = fl[3],
                          !.interface_type_filters = ty,
                          !.interface_name_filters = nm]
    : idx \in FilterIndexLists, pat \in FilterPatternLists,
      fl \in BOOLEAN \X BOOLEAN \X BOOLEAN,
      ty \in FilterTypeLists, nm \in FilterNameLists }

\* descriptors handed to the filter
FilterInterfaces ==
  {NetworkInterface(i, t, d, 0, 0) : i \in {1, 2}, t \in {6, 24}, d \in Descriptions}

\* InterfaceManager::new with one of the configs, and a descriptor to filter
InitFilter ==
  /\ kind = "filter"
  /\ config \in FilterConfigs
  /\ interface_manager = InterfaceManagerNew(config)
  /\ previous_stats = None
  /\ history = <<>>
  /\ max_history_size = 0
  /\ pending = [t \in Tasks |-> Idle]
  /\ now = 0
  /\ ret = [op |-> "new"]
  /\ arg \in FilterInterfaces
  /\ recorded = <<>>
  /\ NoBridge

\* InterfaceManager::should_include_interface on the descriptor
ShouldIncludeInterface ==
  /\ kind = "filter"
  /\ ret' = [op |-> "should_include_interface",
             res |-> should_include_interface(interface_manager.config, arg)]
  /\ UNCHANGED bridge
  /\ UNCHANGED <<kind, config, interface_manager, previous_stats, history,
                 max_history_size, pending, now, arg, recorded>>

NextFilter == ShouldIncludeInterface

SpecFilter == InitFilter /\ [][NextFilter]_vars

(* -------------------------- interface directory ------------------------ *)

\* configs of the directory: the default, one that accepts nothing and one
\* that accepts adapter 3 only
DirectoryConfigs ==
  {DefaultConfig, CfgNoMatch, [DefaultConfig EXCEPT !.include_interface_indices = <<3>>]}

\* outcomes of get_raw_interfaces() seen by the directory; the indices of a
\* table are distinct
DirectoryEnumResults ==
  {Err(WindowsApi), Ok(<<>>), Ok(<<Lo>>), Ok(<<Eth(0, 0), Lo>>), Ok(<<Eth(20, 40), Lo>>),
   Ok(<<Eth(20, 40), Eth2(1, 1)>>), Ok(<<Eth2(1, 1), Lo>>)}

\* InterfaceManager::new
InitDirectory ==
  /\ kind = "directory"
  /\ config \in DirectoryConfigs
  /\ interface_manager = InterfaceManagerNew(config)
  /\ previous_stats = None
  /\ history = <<>>
  /\ max_history_size = 0
  /\ pending = [t \in Tasks |-> Idle]
  /\ now = 0
  /\ ret = [op |-> "new"]
  /\ arg = <<>>
  /\ recorded = <<>>
  /\ NoBridge

\* a call op of the directory ran to o while the provider answered e
DirectoryCall(op, e, o) ==
  /\ kind = "directory"
  /\ interface_manager' = o.mgr
  /\ ret' = [op |-> op, enumerated |-> e, res |-> o.res,
             before |-> interface_manager.interface_cache]
  /\ UNCHANGED bridge
  /\ UNCHANGED <<kind, config, previous_stats, history, max_history_size,
                 pending, now, arg, recorded>>

\* InterfaceManager::get_active_interfaces
GetActiveInterfaces ==
  \E e \in DirectoryEnumResults :
    DirectoryCall("get_active_interfaces", e, get_active_interfaces(interface_manager, e))

\* InterfaceManager::get_total_traffic
GetTotalTraffic ==
  \E e \in DirectoryEnumResults :
    DirectoryCall("get_total_traffic", e, get_total_traffic(interface_manager, e))

\* InterfaceManager::refresh_cache
RefreshCache ==
  \E e \in DirectoryEnumResults :
    DirectoryCall("refresh_cache", e, refresh_cache(interface_manager, e))

NextDirectory == GetActiveInterfaces \/ GetTotalTraffic \/ RefreshCache

SpecDirectory == InitDirectory /\ [][NextDirectory]_vars

(* ------------------------- retry after a failure ----------------------- *)

\* outcomes of get_raw_interfaces() seen by an engine that is polled in
\* Instant mode: counters that stand still, jump, creep on and fall back
RetryEnumResults ==
  {Err(WindowsApi)} \cup {Ok(<<Eth(v[1], v[2]), Lo>>) : v \in {<<0, 0>>, <<20, 40>>, <<25, 45>>}}

\* NetworkMonitor::with_config with an Instant config
InitRetry == Constructed("monitor", {DefaultConfig, CfgLowThreshold}, {0})

\* NetworkMonitor::measure_speed in Instant mode; the call record keeps the
\* instant of the call and the snapshot it captured
MeasureInstant ==
  /\ kind = "monitor"
  /\ config.precision.mode = "Instant"
  /\ \E e \in RetryEnumResults :
       \E o \in {measure_instant(Monitor, now, e)} :
         /\ SetMonitor(o.m)
         /\ ret' = [op |-> "measure_instant", at |-> now,
                    captured |-> get_current_stats(Monitor, now, e).res,
                    res |-> o.res]
  /\ UNCHANGED bridge
  /\ UNCHANGED <<kind, history, max_history_size, pending, now, arg, recorded>>

NextRetry == Tick \/ MeasureInstant

SpecRetry == InitRetry /\ [][NextRetry]_vars

(* --------------------------- sampled measurement ----------------------- *)

\* configs of an engine that measures in Samples mode: windows as long as
\* the minimum interval, windows shorter than it, and a single sample
SamplesConfigs ==
  {CfgSamples, CfgOneSample,
   [DefaultConfig EXCEPT !.precision = Samples(2, 50)],
   [DefaultConfig EXCEPT !.precision = Samples(2, 50), !.min_measurement_interval = 50],
   [DefaultConfig EXCEPT !.precision = Samples(3, 50), !.min_measurement_interval = 50]}

\* NetworkMonitor::with_config with a Samples config
InitSamples == Constructed("monitor", SamplesConfigs, {0})

\* NetworkMonitor::measure_speed in Samples mode; the call record keeps the
\* instant of the call, the instant of its return and the windows it ran
MeasureSamples ==
  /\ kind = "monitor"
  /\ config.precision.mode = "Samples"
  /\ \E o \in measure_samples(Monitor, now, config.precision.samples,
                              config.precision.interval) :
       /\ o.t <= MaxNow
       /\ SetMonitor(o.m)
       /\ now' = o.t
       /\ ret' = [op |-> "measure_samples", at |-> now, to |-> o.t,
                  windows |-> o.windows, res |-> o.res]
  /\ UNCHANGED bridge
  /\ UNCHANGED <<kind, history, max_history_size, pending, arg, recorded>>

NextSamples == Tick \/ MeasureSamples

SpecSamples == InitSamples /\ [][NextSamples]_vars

(* ------------------------------ C-ABI surface -------------------------- *)
\* The exported functions of lib.rs called from NumTasks threads. The global
\* PREVIOUS_STATS is held in previous_stats; a get_net_speed call reads the
\* interface table first and takes the mutex afterwards, and from the lock
\* to the return of the call nothing else can run on the global.

\* NetworkStats of lib.rs; NetworkStats::default() has no timestamp
NetworkStats(u, d, ts) ==
  [total_upload_bytes |-> u, total_download_bytes |-> d, timestamp |-> ts]

\* a MIB_IFROW as far as get_current_network_stats reads it
IfRow(status, type, descr, out, in) ==
  [dwOperStatus |-> status, dwType |-> type, bDescr |-> descr,
   dwOutOctets |-> out, dwInOctets |-> in]

\* the substrings is_virtual_interface looks for
LIB_VIRTUAL_KEYWORDS ==
  {
    <<"v", "i", "r", "t", "u", "a", "l">>,
    <<"v", "p", "n">>,
    <<"t", "u", "n", "n", "e", "l">>,
    <<"t", "a", "p">>,
    <<"t", "u", "n">>,
    <<"v", "m", "w", "a", "r", "e">>,
    <<"v", "i", "r", "t", "u", "a", "l", "b", "o", "x">>,
    <<"h", "y", "p", "e", "r", "-", "v">>,
    <<"t", "e", "r", "e", "d", "o">>,
    <<"6", "t", "o", "4">>,
    <<"m", "i", "c", "r", "o", "s", "o", "f", "t", " ", "w", "i", "-", "f", "i", " ", "d", "i", "r", "e", "c", "t", " ", "v", "i", "r", "t", "u", "a", "l", " ", "a", "d", "a", "p", "t", "e", "r">>,
    <<"b", "l", "u", "e", "t", "o", "o", "t", "h">>,
    <<"l", "o", "o", "p", "b", "a", "c", "k">>
  }

\* is_virtual_interface of lib.rs
is_virtual_interface(interface) ==
  \E k \in LIB_VIRTUAL_KEYWORDS : Contains(ToLowercase(interface.bDescr), k)

RECURSIVE TotalOctets(_, _)
\* the loop of get_current_network_stats over the rows: saturating sum of
\* field f over the rows that are up, not loopback and not virtual
TotalOctets(rows, f) ==
  IF rows = <<>> THEN 0
  ELSE LET interface == rows[Len(rows)]
           total == TotalOctets(SubSeq(rows, 1, Len(rows) - 1), f)
       IN  IF /\ interface.dwOperStatus = 1
              /\ interface.dwType # 24
              /\ ~is_virtual_interface(interface)
           THEN SaturatingAdd(total, interface[f])
           ELSE total

\* get_current_network_stats at instant t; table is what GetIfTable returns
get_current_network_stats(table, t) ==
  IF ~table.ok THEN table
  ELSE Ok(NetworkStats(TotalOctets(table.val, "dwOutOctets"),
                       TotalOctets(table.val, "dwInOctets"), Some(t)))

\* the f64 comparison f < g
F64Less(f, g) == f[1] * g[2] < g[1] * f[2]

\* calculate_speed of lib.rs: <<upload_speed, download_speed>>
LibCalculateSpeed(current, previous) ==
  IF current.timestamp = None \/ previous.timestamp = None THEN <<0, 0>>
  ELSE LET seconds == AsSecsF64(DurationSince(current.timestamp[1],
                                              previous.timestamp[1]))
           upload_diff == WrappingSub(current.total_upload_bytes,
                                      previous.total_upload_bytes)
           download_diff == WrappingSub(current.total_download_bytes,
                                        previous.total_download_bytes)
       IN  IF F64Less(seconds, RoundRat(1, 10)) THEN <<0, 0>>
           ELSE IF \/ upload_diff > Pow2(WordBits - 2)
                   \/ download_diff > Pow2(WordBits - 2)
           THEN <<0, 0>>
           ELSE <<F64ToU64(F64Div(F64FromInt(upload_diff), seconds)),
                  F64ToU64(F64Div(F64FromInt(download_diff), seconds))>>

\* what GetIfTable may return: a failure, or a table with an Ethernet
\* adapter, an adapter that is down, the loopback and a TAP adapter
LibTables ==
  {Err(WindowsApi)}
    \cup {Ok(<<IfRow(1, 6, DescEthernet, v[1], v[2]), IfRow(2, 6, DescEthernet, 5, 5),
              IfRow(1, 24, DescLoopback, 7, 7), IfRow(1, 6, DescTap, 9, 9)>>)
          : v \in TrafficVals}

\* the library is loaded: PREVIOUS_STATS is NetworkStats::default()
InitLib ==
  /\ kind = "lib"
  /\ config = DefaultConfig
  /\ interface_manager = InterfaceManagerNew(DefaultConfig)
  /\ previous_stats = NetworkStats(0, 0, None)
  /\ history = <<>>
  /\ max_history_size = 0
  /\ pending = [t \in Tasks |-> Idle]
  /\ now = 0
  /\ ret = [op |-> "load"]
  /\ arg = <<>>
  /\ recorded = <<>>
  /\ NoBridge

\* get_net_speed up to PREVIOUS_STATS.lock(): the table is read and stamped
\* with Instant::now(); a failure returns -1
GetNetSpeedCapture(task) ==
  /\ kind = "lib"
  /\ pending[task] = Idle
  /\ \E table \in LibTables :
       \E current_stats \in {get_current_network_stats(table, now)} :
         IF ~current_stats.ok
         THEN /\ ret' = [op |-> "get_net_speed", task |-> task, res |-> -1]
              /\ UNCHANGED pending
         ELSE /\ pending' = [pending EXCEPT ![task] =
                               [pc |-> "lock", current_stats |-> current_stats.val]]
              /\ UNCHANGED ret
  /\ UNCHANGED bridge
  /\ UNCHANGED <<kind, config, interface_manager, previous_stats, history,
                 max_history_size, now, arg, recorded>>

\* get_net_speed from PREVIOUS_STATS.lock() to its return: the speed against
\* the stored stats, then the captured stats become the stored ones
GetNetSpeedStore(task) ==
  /\ kind = "lib"
  /\ pending[task].pc = "lock"
  /\ previous_stats' = pending[task].current_stats
  /\ pending' = [pending EXCEPT ![task] = Idle]
  /\ ret' = [op |-> "get_net_speed", task |-> task, res |-> 0,
             previous |-> previous_stats,
             stored |-> pending[task].current_stats,
             speed |-> IF previous_stats.timestamp # None
                       THEN LibCalculateSpeed(pending[task].current_stats,
                                              previous_stats)
                       ELSE <<0, 0>>]
  /\ UNCHANGED bridge
  /\ UNCHANGED <<kind, config, interface_manager, history, max_history_size, now,
                 arg, recorded>>

\* reset_net_speed
ResetNetSpeed(task) ==
  /\ kind = "lib"
  /\ pending[task] = Idle
  /\ previous_stats' = NetworkStats(0, 0, None)
  /\ ret' = [op |-> "reset_net_speed", task |-> task, res |-> 0]
  /\ UNCHANGED bridge
  /\ UNCHANGED <<kind, config, interface_manager, history, max_history_size,
                 pending, now, arg, recorded>>

\* threads calling the exported functions
NextLib ==
  \/ Tick
  \/ \E task \in Tasks : GetNetSpeedCapture(task)
  \/ \E task \in Tasks : GetNetSpeedStore(task)
  \/ \E task \in Tasks : ResetNetSpeed(task)

SpecLib == InitLib /\ [][NextLib]_vars

(* ------------------------------- claims -------------------------------- *)

IsZeroSpeed(s) == s.upload_bytes_per_sec = 0 /\ s.download_bytes_per_sec = 0

\* the last n elements of s
LastN(s, n) == SubSeq(s, Len(s) - n + 1, Len(s))

\* C1: the history of a tracker (NetworkSpeedTracker or
\* AsyncNetworkSpeedTracker), whatever tracks, clears and resets were made and
\* whether they succeeded, never holds more than max_history_size entries.
C1_HistoryWithinCapacity == Len(history) <= max_history_size

\* a track has just appended to a history that was already full
C1_Witness ==
  /\ ret.op \in {"track_speed", "async_track_speed"}
  /\ ret.res.ok
  /\ max_history_size >= 1
  /\ Len(ret.hist) = max_history_size
  /\ Len(history) = max_history_size

\* C2: after k successful track() calls since the last clear/reset the
\* history, and what get_history() returns, is exactly the last
\* min(k, max_history_size) measurements in the order they were recorded.
C2_OldestEvictedFirst ==
  kind = "tracker" =>
    LET kept == LastN(recorded, Min(Len(recorded), max_history_size))
    IN  /\ history = kept
        /\ ret.op = "get_history" => ret.res = kept

\* get_history() after more tracks than the capacity, at least two entries kept
C2_Witness ==
  /\ ret.op = "get_history"
  /\ max_history_size >= 2
  /\ Len(recorded) > max_history_size
  /\ ret.res[1] # ret.res[2]

\* C3: track() returns what measure() returned; when measure() failed the
\* history is the one before the call, when it succeeded the history is the
\* one before the call with that measurement appended (cut to the capacity at
\* the front), so a fresh tracker of capacity >= 1 holds one entry.
C3_TrackRecordsSuccessOnly ==
  ret.op = "track_speed" =>
    /\ ret.res = ret.measured
    /\ ~ret.measured.ok => history = ret.hist
    /\ ret.measured.ok =>
         LET appended == Append(ret.hist, ret.measured.val)
         IN  /\ history = LastN(appended, Min(Len(appended), max_history_size))
             /\ (ret.hist = <<>> /\ max_history_size >= 1) => Len(history) = 1

\* a track has just failed on a tracker that holds history
C3_Witness ==
  /\ ret.op = "track_speed"
  /\ ~ret.res.ok
  /\ history # <<>>

\* C4 as stated: the first measure() in Instant mode on an engine with no
\* previous snapshot returns the zero speed and never fails.
C4_FirstInstantMeasureNeverFails ==
  ( /\ ret.op = "measure_speed"
    /\ ret.pre.previous_stats = None
    /\ ret.pre.config.precision.mode = "Instant" )
  => (ret.res.ok /\ IsZeroSpeed(ret.res.val))

\* C4 amended: the first measure() in Instant mode on an engine with no
\* previous snapshot returns the zero speed when its snapshot capture
\* succeeds and the capture's error (NoInterfacesFound or the provider's
\* error) when it fails; it never fails with InsufficientTimeElapsed or
\* CalculationOverflow.
C4_FirstInstantMeasureZeroOrCaptureError ==
  ( /\ ret.op = "measure_speed"
    /\ ret.pre.previous_stats = None
    /\ ret.pre.config.precision.mode = "Instant" )
  => IF ret.res.ok
     THEN IsZeroSpeed(ret.res.val) /\ previous_stats # None
     ELSE ret.res.err \in {NoInterfacesFound, WindowsApi} /\ previous_stats = None

\* a cold-start measure() in Instant mode has just returned the zero speed
C4_Witness ==
  /\ ret.op = "measure_speed"
  /\ ret.pre.previous_stats = None
  /\ ret.pre.config.precision.mode = "Instant"
  /\ ret.res.ok
  /\ previous_stats # None

\* the last call was a successful update_config on a Warmed engine
AfterUpdateOfWarmed ==
  /\ ret.op = "update_config"
  /\ ret.res.ok
  /\ ret.pre.previous_stats # None

\* C5 as stated: a successful update_config on a Warmed engine adopts the new
\* config and resets previous_stats to None, and the next measure() in
\* Instant mode returns the zero speed.
C5_UpdateConfigThenZero ==
  [][ /\ (UpdateConfig /\ previous_stats # None /\ ret'.res.ok)
         => (config' = ret'.new /\ previous_stats' = None)
      /\ (AfterUpdateOfWarmed /\ config.precision.mode = "Instant" /\ MeasureSpeed)
         => (ret'.res.ok /\ IsZeroSpeed(ret'.res.val)) ]_vars

\* C5 amended: a successful update_config on a Warmed engine adopts the new
\* config and resets previous_stats to None, and the next measure() in
\* Instant mode returns the zero speed when its snapshot capture succeeds and
\* the capture's error otherwise, never a diff against the old snapshot.
C5_UpdateConfigThenZeroOrCaptureError ==
  [][ /\ (UpdateConfig /\ previous_stats # None /\ ret'.res.ok)
         => (config' = ret'.new /\ previous_stats' = None)
      /\ (AfterUpdateOfWarmed /\ config.precision.mode = "Instant" /\ MeasureSpeed)
         => IF ret'.res.ok THEN IsZeroSpeed(ret'.res.val)
            ELSE ret'.res.err \in {NoInterfacesFound, WindowsApi} ]_vars

\* a Warmed engine has just adopted a different config in Instant mode
C5_Witness ==
  /\ AfterUpdateOfWarmed
  /\ ret.new # ret.pre.config
  /\ config = ret.new
  /\ config.precision.mode = "Instant"
  /\ previous_stats = None

\* C6: the config an engine holds passes validate(), however the engine was
\* constructed or reconfigured.
C6_EngineConfigValid == validate(config).ok

\* C7: update_config with a config that fails validate() returns
\* InvalidConfiguration and leaves config, Interface Directory and
\* previous_stats as they were.
C7_RejectedUpdateChangesNothing ==
  (ret.op = "update_config" /\ ~validate(ret.new).ok) =>
    /\ ~ret.res.ok
    /\ ret.res.err.kind = "InvalidConfiguration"
    /\ Monitor = ret.pre

\* an invalid config has just been refused by a Warmed engine with a cache
C7_Witness ==
  /\ ret.op = "update_config"
  /\ ~ret.res.ok
  /\ previous_stats # None
  /\ interface_manager.interface_cache # EmptyCache

\* the conditions under which the spec says validate() fails
InvalidBySpec(c) ==
  \/ c.min_measurement_interval < 10
  \/ c.max_counter_wrap_threshold = 0
  \/ c.precision.mode = "Samples" /\ c.precision.samples < 2
  \/ c.precision.mode = "Windowed" /\ c.precision.duration = 0
  \/ c.precision.mode = "Samples" /\ c.precision.interval = 0

\* C8: validate() and builder.build() fail, with InvalidConfiguration, exactly
\* when min_measurement_interval < 10ms, or max_counter_wrap_threshold = 0,
\* or the precision is Samples with count < 2, or Windowed/Samples with a
\* zero duration/interval; build() of any other config returns that config.
C8_ValidateFailsIffInvalid ==
  ret.op \in {"validate", "build"} =>
    /\ ~ret.res.ok <=> InvalidBySpec(config)
    /\ ~ret.res.ok => ret.res.err.kind = "InvalidConfiguration"
    /\ (ret.res.ok /\ ret.op = "build") => ret.res.val = config

\* a config at the 10 ms floor has just been accepted
C8_Witness ==
  /\ ret.op = "build"
  /\ ret.res.ok
  /\ config.min_measurement_interval = 10
  /\ config.precision.mode = "Samples"

\* the inputs of the last calculate_speed call
CalcElapsed == DurationSince(arg.last_update, previous_stats[1].last_update)

CalcUploadDiff == WrappingSub(arg.bytes_sent, previous_stats[1].bytes_sent)

CalcDownloadDiff == WrappingSub(arg.bytes_received, previous_stats[1].bytes_received)

CalcOverThreshold ==
  \/ CalcUploadDiff > config.max_counter_wrap_threshold
  \/ CalcDownloadDiff > config.max_counter_wrap_threshold

\* C9: when a diff exceeds max_counter_wrap_threshold and the elapsed time is
\* at least min_measurement_interval, calculate_speed returns
\* CalculationOverflow.
C9_OverThresholdIsOverflow ==
  ( /\ ret.op = "calculate_speed"
    /\ CalcOverThreshold
    /\ CalcElapsed >= config.min_measurement_interval )
  => ret.res = Err(CalculationOverflow)

\* floor(diff / elapsed seconds), elapsed in milliseconds
FloorRate(diff, elapsed) == (diff * 1000) \div elapsed

\* C10 as stated: elapsed < min_measurement_interval yields
\* InsufficientTimeElapsed whatever the diffs; otherwise, with both diffs
\* within the threshold, the rates are floor(diff / elapsed_seconds) each
\* (read for a non-zero elapsed time, where the quotient is defined).
C10_RatesAreFloors ==
  ret.op = "calculate_speed" =>
    /\ CalcElapsed < config.min_measurement_interval
         => (~ret.res.ok /\ ret.res.err.kind = "InsufficientTimeElapsed")
    /\ ( /\ CalcElapsed >= config.min_measurement_interval
         /\ CalcElapsed > 0
         /\ ~CalcOverThreshold )
         => /\ ret.res.ok
            /\ ret.res.val.upload_bytes_per_sec = FloorRate(CalcUploadDiff, CalcElapsed)
            /\ ret.res.val.download_bytes_per_sec = FloorRate(CalcDownloadDiff, CalcElapsed)

\* the f64 quotient of calculate_speed, truncated
F64Rate(diff, elapsed) == F64ToU64(F64Div(F64FromInt(diff), AsSecsF64(elapsed)))

\* a whole number of seconds and a diff for which the f64 quotient is exact
ExactlyDivisible(diff, elapsed) ==
  elapsed % 1000 = 0 /\ diff + (elapsed \div 1000) < Pow2(MantBits)

\* C10 amended: elapsed < min_measurement_interval yields
\* InsufficientTimeElapsed{min, actual} whatever the diffs, and so does a
\* zero elapsed time; otherwise, with both diffs within the threshold, the
\* upload and the download rate are each the f64 quotient
\* (diff as f64) / elapsed.as_secs_f64() truncated to an integer, which is
\* floor(diff / elapsed_seconds) when the elapsed time is a whole number of
\* seconds and diff + seconds is below 2^53.
C10_RatesAreTruncatedF64Quotients ==
  ret.op = "calculate_speed" =>
    /\ CalcElapsed < config.min_measurement_interval
         => ret.res = Err(InsufficientTimeElapsed(config.min_measurement_interval, CalcElapsed))
    /\ (CalcElapsed >= config.min_measurement_interval /\ CalcElapsed = 0)
         => ret.res = Err(InsufficientTimeElapsed(config.min_measurement_interval, 0))
    /\ (CalcElapsed >= config.min_measurement_interval /\ CalcElapsed > 0 /\ ~CalcOverThreshold)
         => /\ ret.res.ok
            /\ ret.res.val.upload_bytes_per_sec = F64Rate(CalcUploadDiff, CalcElapsed)
            /\ ret.res.val.download_bytes_per_sec = F64Rate(CalcDownloadDiff, CalcElapsed)
            /\ ExactlyDivisible(CalcUploadDiff, CalcElapsed)
                 => ret.res.val.upload_bytes_per_sec = FloorRate(CalcUploadDiff, CalcElapsed)
            /\ ExactlyDivisible(CalcDownloadDiff, CalcElapsed)
                 => ret.res.val.download_bytes_per_sec = FloorRate(CalcDownloadDiff, CalcElapsed)

\* a rate has just been computed with different upload and download diffs,
\* the upload one not a multiple of the elapsed seconds
C10_Witness ==
  /\ ret.op = "calculate_speed"
  /\ ret.res.ok
  /\ CalcElapsed = 2000
  /\ CalcUploadDiff = 5
  /\ ret.res.val.upload_bytes_per_sec = 2
  /\ ret.res.val.download_bytes_per_sec = 10

\* the counters rolled over between the two snapshots
RolledOver ==
  \/ arg.sent + arg.upload >= CounterModulus(arg.backend)
  \/ arg.received + arg.download >= CounterModulus(arg.backend)

\* C11: when a 32-bit or a 64-bit interface counter rolls over between two
\* snapshots with true increments within max_counter_wrap_threshold, the
\* measurement succeeds and, the snapshots being one second apart, reports
\* exactly the true increments as the rates.
C11_RolloverYieldsTrueIncrement ==
  (kind = "rollover" /\ ret.op = "second_snapshot" /\ RolledOver) =>
    /\ ret.res.ok
    /\ ret.res.val.upload_bytes_per_sec = arg.upload
    /\ ret.res.val.download_bytes_per_sec = arg.download

\* C12: measure_speed_blocking(duration) is the two-snapshot measurement
\* whatever precision is configured and whatever snapshot is stored: a failed
\* snapshot A or B is the result and leaves previous_stats alone; otherwise
\* the result is the rate computed from A to B, B was taken at least
\* duration after A, and on success B becomes previous_stats.
C12_BlockingIsWindowed ==
  ret.op = "measure_speed_blocking" =>
    LET A == ret.snapshots.initial
        B == ret.snapshots.final
    IN  /\ ~A.ok => (ret.res = A /\ B = None /\ previous_stats = ret.pre.previous_stats)
        /\ A.ok => B # None
        /\ (A.ok /\ ~B[1].ok) =>
             (ret.res = B[1] /\ previous_stats = ret.pre.previous_stats)
        /\ (A.ok /\ B[1].ok) =>
             /\ B[1].val.last_update >= A.val.last_update + ret.duration
             /\ ret.res = calculate_speed(config, B[1].val, A.val, B[1].val.last_update)
             /\ ret.res.ok => previous_stats = Some(B[1].val)
             /\ ~ret.res.ok => previous_stats = ret.pre.previous_stats

\* a blocking measurement on a warmed engine in Instant mode reported the
\* traffic between its own two snapshots and stored the second one
C12_Witness ==
  /\ ret.op = "measure_speed_blocking"
  /\ ret.pre.config.precision.mode = "Instant"
  /\ ret.pre.previous_stats # None
  /\ ret.res.ok
  /\ ret.res.val.upload_bytes_per_sec > 0
  /\ ret.snapshots.initial.val.bytes_sent # ret.pre.previous_stats[1].bytes_sent
  /\ previous_stats = Some(ret.snapshots.final[1].val)

\* C13: get_instantaneous_speed() without a stored snapshot returns Ok(None)
\* without measuring; otherwise it measures and returns Ok(Some(speed)) for a
\* speed, Ok(None) for InsufficientTimeElapsed and every other error as it is.
C13_InstantaneousSpeedNotReadyIsNone ==
  ret.op = "get_instantaneous_speed" =>
    /\ ret.pre.previous_stats = None =>
         (ret.res = Ok(None) /\ ret.measured = None /\ Monitor = ret.pre)
    /\ ret.pre.previous_stats # None =>
         /\ ret.measured # None
         /\ ret.measured[1].ok => ret.res = Ok(Some(ret.measured[1].val))
         /\ ~ret.measured[1].ok =>
              IF ret.measured[1].err.kind = "InsufficientTimeElapsed"
              THEN ret.res = Ok(None)
              ELSE ret.res = ret.measured[1]

\* the measurement behind the call failed with InsufficientTimeElapsed
C13_Witness ==
  /\ ret.op = "get_instantaneous_speed"
  /\ ret.measured # None
  /\ ~ret.measured[1].ok
  /\ ret.measured[1].err.kind = "InsufficientTimeElapsed"
  /\ ret.res = Ok(None)

\* C14: NetworkMonitor::reset() leaves previous_stats None and the config and
\* the interface manager, cache included, as they were.
C14_ResetClearsSnapshotOnly ==
  ret.op = "reset" =>
    /\ previous_stats = None
    /\ config = ret.pre.config
    /\ interface_manager = ret.pre.interface_manager

\* a warmed engine with a filled cache has just been reset
C14_Witness ==
  /\ ret.op = "reset"
  /\ ret.pre.previous_stats # None
  /\ interface_manager.interface_cache # EmptyCache
  /\ previous_stats = None

\* indices of the history entries with computed_at >= t - window
Qualifying(window, t) == {i \in 1..Len(history) : history[i].timestamp >= t - window}

RECURSIVE SumOver(_, _)
\* the sum of field f over the history entries with index in I
SumOver(I, f) ==
  IF I = {} THEN 0
  ELSE LET i == CHOOSE j \in I : TRUE IN history[i][f] + SumOver(I \ {i}, f)

\* C15: get_average_speed(window) returns None when no history entry has
\* timestamp >= now - window, and otherwise the floor of the mean upload and
\* the floor of the mean download over exactly those entries.
C15_AverageOverWindow ==
  (kind = "tracker" /\ ret.op = "get_average_speed") =>
    /\ ret.res.returned
    /\ Qualifying(ret.window, ret.at) = {} => ret.res.val = None
    /\ Qualifying(ret.window, ret.at) # {} =>
         /\ ret.res.val # None
         /\ ret.res.val[1].upload_bytes_per_sec =
              SumOver(Qualifying(ret.window, ret.at), "upload_bytes_per_sec")
                \div Cardinality(Qualifying(ret.window, ret.at))
         /\ ret.res.val[1].download_bytes_per_sec =
              SumOver(Qualifying(ret.window, ret.at), "download_bytes_per_sec")
                \div Cardinality(Qualifying(ret.window, ret.at))

\* C16: get_peak_speed(window) returns None when no entry qualifies, and
\* otherwise the last recorded of the qualifying entries whose saturating
\* upload + download is the largest.
C16_PeakIsLatestMaximum ==
  (kind = "tracker" /\ ret.op = "get_peak_speed") =>
    /\ ret.res.returned
    /\ Qualifying(ret.window, ret.at) = {} => ret.res.val = None
    /\ Qualifying(ret.window, ret.at) # {} =>
         \E i \in Qualifying(ret.window, ret.at) :
           /\ ret.res.val = Some(history[i])
           /\ \A j \in Qualifying(ret.window, ret.at) :
                /\ total_bytes_per_sec(history[j]) <= total_bytes_per_sec(history[i])
                /\ total_bytes_per_sec(history[j]) = total_bytes_per_sec(history[i]) => j <= i

\* C17: clear_history empties the history and leaves the monitor (and so its
\* previous snapshot) as it was; reset empties the history and sets the
\* previous snapshot to None. For the bridged tracker reset is two closures:
\* the first resets the monitor, the second is clear_history.
C17_ClearAndReset ==
  [][ /\ ret'.op \in {"clear_history", "async_clear_history"} =>
           /\ history' = <<>>
           /\ UNCHANGED <<config, interface_manager, previous_stats>>
      /\ ret'.op = "tracker_reset" =>
           /\ history' = <<>>
           /\ previous_stats' = None
      /\ ret'.op = "async_reset_monitor" => previous_stats' = None ]_vars

\* the closures that are inside the monitor: between taking the mutex and
\* dropping the guard
Holders ==
  {task \in Tasks : pending[task].pc \in InsidePcs}
    \cup (IF producer.pc = "inside" THEN {ProducerTask} ELSE {})

\* the step is a step of the closure h
StepOf(h) == IF h = ProducerTask THEN producer' # producer ELSE pending'[h] # pending[h]

\* C18: at most one bridged call is inside the monitor at a time, it is the
\* owner of the mutex, and while it is inside every change of the monitor
\* (config, interface manager, previous_stats) is a step of that call.
C18_OneCallInsideTheEngine ==
  [][ /\ Cardinality(Holders') <= 1
      /\ \A h \in Holders' : inner'.owner = Some(h)
      /\ \A h \in Holders : Monitor' # Monitor => StepOf(h) ]_vars

\* a measure_speed call is about to store its snapshot while the producer and
\* another caller have measurements of their own to make
C18_Witness ==
  /\ kind = "async_monitor"
  /\ \E task \in Tasks :
       /\ pending[task].pc = "update"
       /\ pending[task].speed.upload_bytes_per_sec > 0
  /\ producer.pc = "lock"

\* the receiver returned by monitor_with_channel was dropped
ReceiverDropped == producer.pc # "none" /\ ~channel.open

C20_ProducerRunsWhileReceiverOpen ==
  (producer.pc # "none" /\ channel.open) => producer.pc # "done"

\* the step takes a message out of the open channel
ReceiveStep ==
  /\ channel.open
  /\ channel'.open
  /\ Len(channel'.queue) < Len(channel.queue)

\* C21: the producer starts a measurement only when every result it produced
\* so far is in the channel or was received, and the receiver gets the
\* results one by one in production order (none missing, none twice), the
\* successful ones with non-decreasing timestamps.
C21_ResultsInProductionOrder ==
  [][ /\ (channel'.open /\ producer'.pc \in {"lock", "inside"}) =>
           channel'.produced = channel'.received + Len(channel'.queue)
      /\ ReceiveStep =>
           /\ ret'.res = Head(channel.queue)
           /\ ret'.res.n = channel.received + 1
           /\ ret'.res.res.ok => ret'.res.res.val.timestamp >= channel.last_at ]_vars

\* the receiver took the first result while the second and the third, made
\* later, wait in the channel
C21_Witness ==
  /\ Numbered
  /\ channel.open
  /\ ret.op = "recv"
  /\ channel.received = 1
  /\ Len(channel.queue) = 2
  /\ channel.queue[1].res.ok
  /\ channel.queue[2].res.ok
  /\ channel.queue[2].res.val.timestamp > channel.queue[1].res.val.timestamp

\* an attempt that collect_samples skips, and one that makes it give up
Skipped(r) == ~r.ok /\ r.err.kind = "InsufficientTimeElapsed"

Aborting(r) == ~r.ok /\ r.err.kind # "InsufficientTimeElapsed"

\* the speeds of the successful attempts, in the order of the attempts
Successes(attempts) ==
  [i \in 1..Len(SelectSeq(attempts, LAMBDA r : r.ok)) |->
     SelectSeq(attempts, LAMBDA r : r.ok)[i].val]

\* the collecting call that returned made all its attempts and gave up on none
RanToTheEnd(n) ==
  /\ Len(ret.attempts) = n
  /\ \A k \in 1..Len(ret.attempts) : ~Aborting(ret.attempts[k])

\* C22: a collect_samples(n, interval) call none of whose measurements fails
\* with an error other than InsufficientTimeElapsed makes exactly n attempts
\* and returns the speeds of the successful ones in order.
C22_CollectsEverySuccess ==
  (/\ ret.op = "collect_samples"
   /\ \A k \in 1..Len(ret.attempts) : ~Aborting(ret.attempts[k]))
    => /\ ret.res.returned
       /\ Len(ret.attempts) = ret.args[1]
       /\ IF Successes(ret.attempts) = <<>>
          THEN ~ret.res.val.ok
          ELSE ret.res.val = Ok(Successes(ret.attempts))

\* C23: in collect_samples a measurement that fails with an error other than
\* InsufficientTimeElapsed is the last attempt of the call, and the call
\* returns that error itself instead of the samples.
C23_OtherFailureAborts ==
  ret.op = "collect_samples" =>
    \A k \in 1..Len(ret.attempts) :
      Aborting(ret.attempts[k]) =>
        /\ k = Len(ret.attempts)
        /\ ret.res = Returned(ret.attempts[k])

\* three samples were asked for, the first attempt succeeded and the second
\* failed with another error
C23_Witness ==
  /\ ret.op = "collect_samples"
  /\ ret.args[1] = 3
  /\ Len(ret.attempts) = 2
  /\ ret.attempts[1].ok
  /\ Aborting(ret.attempts[2])

\* C24: collect_samples that finishes its ticks without a sample returns
\* InsufficientTimeElapsed, and it never returns an empty list.
C24_NoSampleIsInsufficientTime ==
  (ret.op = "collect_samples" /\ ret.res.returned) =>
    /\ ret.res.val.ok => ret.res.val.val # <<>>
    /\ (RanToTheEnd(ret.args[1]) /\ Successes(ret.attempts) = <<>>) =>
         ret.res.val = Err(InsufficientTimeElapsed(AsMillis(ret.args[2]), 0))

\* two attempts were made and both were skipped
C24_Witness ==
  /\ ret.op = "collect_samples"
  /\ ret.res.returned
  /\ ret.args[1] = 2
  /\ Len(ret.attempts) = 2
  /\ Skipped(ret.attempts[1])
  /\ Skipped(ret.attempts[2])

\* floor of the mean of field f over the speeds s
MeanOf(s, f) == SumNat(s, f) \div Len(s)

\* C25: measure_average_speed(total_duration, sample_interval) attempts
\* floor(total_duration / sample_interval) samples; when that count is zero
\* it returns InvalidConfiguration and measures nothing, otherwise it returns
\* the floors of the mean upload and the mean download of the samples
\* collected.
C25_AverageOfReturnedSamples ==
  (ret.op = "measure_average_speed" /\ ret.args[2] > 0) =>
    /\ ret.res.returned
    /\ ret.args[1] \div ret.args[2] = 0 =>
         /\ ret.attempts = <<>>
         /\ ~ret.res.val.ok
         /\ ret.res.val.err.kind = "InvalidConfiguration"
    /\ ret.args[1] \div ret.args[2] > 0 =>
         /\ Len(ret.attempts) <= ret.args[1] \div ret.args[2]
         /\ (RanToTheEnd(Len(ret.attempts)) /\ Successes(ret.attempts) # <<>>) =>
              /\ Len(ret.attempts) = ret.args[1] \div ret.args[2]
              /\ ret.res.val =
                   Ok(NetworkSpeed(MeanOf(Successes(ret.attempts), "upload_bytes_per_sec"),
                                   MeanOf(Successes(ret.attempts), "download_bytes_per_sec"),
                                   ret.at))

\* C26: a bridged call other than get_instantaneous_speed that finds the
\* monitor's mutex poisoned hands the failure to its caller as an error.
C26_NoErrorSwallowed ==
  [][ (/\ inner.poisoned
       /\ ret' # ret
       /\ ret'.op \in {"measure_speed", "measure_speed_with_delay", "update_config",
                       "reset", "get_config"})
        => ret'.res = "Err" ]_vars

\* the same letter, whatever its case
SameLetter(a, b) == a = b \/ <<a, b>> \in UpperToLower \/ <<b, a>> \in UpperToLower

\* needle is a case-insensitive substring of hay
OccursIgnoringCase(needle, hay) ==
  \E k \in 0..(Len(hay) - Len(needle)) :
    \A i \in 1..Len(needle) : SameLetter(hay[k + i], needle[i])

\* the seven rules a descriptor has to pass under config c
PassesSevenRules(c, iface) ==
  /\ c.include_interface_indices # <<>> =>
       \E i \in 1..Len(c.include_interface_indices) :
         c.include_interface_indices[i] = iface.index
  /\ c.include_interface_name_patterns # <<>> =>
       \E i \in 1..Len(c.include_interface_name_patterns) :
         OccursIgnoringCase(c.include_interface_name_patterns[i], iface.description)
  /\ ~(c.exclude_loopback /\ iface.interface_type = 24)
  /\ ~(c.exclude_virtual
         /\ \E k \in VIRTUAL_KEYWORDS : OccursIgnoringCase(k, iface.description))
  /\ ~(c.exclude_bluetooth /\ OccursIgnoringCase(BLUETOOTH, iface.description))
  /\ \A i \in 1..Len(c.interface_type_filters) :
       c.interface_type_filters[i] # iface.interface_type
  /\ \A i \in 1..Len(c.interface_name_filters) :
       ~OccursIgnoringCase(c.interface_name_filters[i], iface.description)

\* C27: the filter accepts a descriptor exactly when the descriptor passes
\* all seven rules.
C27_AcceptedIffSevenRules ==
  ret.op = "should_include_interface" => ret.res = PassesSevenRules(config, arg)

\* a descriptor accepted through both include lists, by a pattern that
\* differs from the description in case
C27_Witness ==
  /\ ret.op = "should_include_interface"
  /\ ret.res
  /\ config.include_interface_indices # <<>>
  /\ config.include_interface_name_patterns # <<>>
  /\ \A i \in 1..Len(config.include_interface_name_patterns) :
       ~Contains(arg.description, config.include_interface_name_patterns[i])

\* the descriptors of the provider's answer that pass the rules of the
\* directory's config
AcceptedSet == {x \in {ret.enumerated.val[i] : i \in 1..Len(ret.enumerated.val)} :
                  PassesSevenRules(config, x)}

\* the directory was called and the provider answered
DirectoryAnswered ==
  /\ ret.op \in {"get_active_interfaces", "get_total_traffic", "refresh_cache"}
  /\ ret.enumerated.ok

\* C28: after a successful call of the directory the cache holds the
\* descriptors accepted by that call, each under its index, and nothing
\* else; when no descriptor is accepted the cache is empty and the call
\* fails with NoInterfacesFound.
C28_CacheIsAcceptedSet ==
  DirectoryAnswered =>
    /\ ret.res.ok =>
         /\ DOMAIN interface_manager.interface_cache = {x.index : x \in AcceptedSet}
         /\ \A x \in AcceptedSet : interface_manager.interface_cache[x.index] = x
    /\ AcceptedSet = {} =>
         /\ interface_manager.interface_cache = EmptyCache
         /\ ret.res = Err(NoInterfacesFound)
    /\ AcceptedSet # {} => ret.res.ok

\* a successful call dropped an index that an earlier call had cached
C28_Witness ==
  /\ ret.op = "get_active_interfaces"
  /\ ret.res.ok
  /\ \E idx \in DOMAIN ret.before : idx \notin DOMAIN interface_manager.interface_cache

\* the step is a measure() in Instant mode that captured a snapshot
CapturingMeasure ==
  /\ ret' # ret
  /\ ret'.op = "measure_instant"
  /\ ret'.captured.ok

\* the step is a retry of a measure() that failed with CalculationOverflow,
\* made at least min_measurement_interval later with counters that advanced
\* by no more than the threshold since the failed call
RetryAfterOverflow ==
  /\ ret.op = "measure_instant"
  /\ ret.res = Err(CalculationOverflow)
  /\ CapturingMeasure
  /\ ret'.at >= ret.at + config.min_measurement_interval
  /\ WrappingSub(ret'.captured.val.bytes_sent, ret.captured.val.bytes_sent)
       <= config.max_counter_wrap_threshold
  /\ WrappingSub(ret'.captured.val.bytes_received, ret.captured.val.bytes_received)
       <= config.max_counter_wrap_threshold

\* C29: the retry of a measure() that failed with CalculationOverflow, made
\* at least min_measurement_interval later with counters that advanced by no
\* more than the threshold since the failed call, succeeds.
C29_OverflowIsTransient ==
  [][ RetryAfterOverflow => ret'.res.ok ]_vars

\* C30: a measure() in Instant mode that captured a snapshot leaves that
\* snapshot in previous_stats, whatever the rate computation returned.
C30_SnapshotStoredRegardless ==
  [][ CapturingMeasure => previous_stats' = Some(ret'.captured.val) ]_vars

\* C31: a measure() in Windowed or Samples mode that returns an error leaves
\* previous_stats as it was before the call.
C31_FailedWindowKeepsSnapshot ==
  (/\ ret.op = "measure_speed"
   /\ ret.pre.config.precision.mode \in {"Windowed", "Samples"}
   /\ ~ret.res.ok)
    => previous_stats = ret.pre.previous_stats

\* the speeds measured by the windows ws
WindowSpeeds(ws) == [i \in 1..Len(ws) |-> ws[i].res.val]

\* the windows ws ran one after another from instant t, each at least as
\* long as the interval
BackToBack(ws, t, interval) ==
  \A i \in 1..Len(ws) :
    /\ ws[i].from = (IF i = 1 THEN t ELSE ws[i - 1].to)
    /\ ws[i].res.ok => ws[i].to >= ws[i].from + interval

\* C32: measure() in Samples{count, interval} mode runs its windows back to
\* back; when all count windows succeed it returns the floors of the true
\* sums of their uploads and of their downloads divided by count, and
\* otherwise it stops at the first window that fails and returns that
\* window's error.
C32_SamplesMeanOfWindows ==
  ret.op = "measure_samples" =>
    /\ Len(ret.windows) \in 1..config.precision.samples
    /\ BackToBack(ret.windows, ret.at, config.precision.interval)
    /\ \A i \in 1..(Len(ret.windows) - 1) : ret.windows[i].res.ok
    /\ IF ret.windows[Len(ret.windows)].res.ok
       THEN /\ Len(ret.windows) = config.precision.samples
            /\ ret.res =
                 Ok(NetworkSpeed(
                      SumNat(WindowSpeeds(ret.windows), "upload_bytes_per_sec")
                        \div config.precision.samples,
                      SumNat(WindowSpeeds(ret.windows), "download_bytes_per_sec")
                        \div config.precision.samples,
                      ret.to))
       ELSE ret.res = ret.windows[Len(ret.windows)].res

\* two windows succeeded with downloads that add up to more than u64::MAX
C32_Witness ==
  /\ ret.op = "measure_samples"
  /\ ret.res.ok
  /\ Len(ret.windows) >= 2
  /\ SumNat(WindowSpeeds(ret.windows), "download_bytes_per_sec") >= Word

\* the calls that measure
MeasuringOps == {"measure_speed", "measure_speed_blocking", "get_instantaneous_speed"}

\* C33 as stated: a measurement that captures a snapshot leaves the engine
\* Warmed, and no measurement takes a Warmed engine back to Uninitialized.
C33_AnyCaptureWarms ==
  /\ (ret.op = "measure_speed_blocking" /\ ret.snapshots.initial.ok)
       => previous_stats # None
  /\ (ret.op \in MeasuringOps /\ ret.pre.previous_stats # None)
       => previous_stats # None

\* C33 (amended): a measure or measure_blocking call that returns Ok leaves
\* the engine Warmed; a Warmed engine is Uninitialized after a call only when
\* the call was reset() or a successful update_config, both of which always
\* leave it Uninitialized; no measuring call, successful or failed, takes a
\* Warmed engine back to Uninitialized.
C33_EngineStateMachine ==
  /\ (ret.op \in {"measure_speed", "measure_speed_blocking"} /\ ret.res.ok)
       => previous_stats # None
  /\ (ret.op \in MeasuringOps /\ ret.pre.previous_stats # None)
       => previous_stats # None
  /\ (ret.op \in MeasuringOps \cup {"reset", "update_config"}
        /\ ret.pre.previous_stats # None /\ previous_stats = None)
       => (ret.op = "reset" \/ (ret.op = "update_config" /\ ret.res.ok))
  /\ ret.op = "reset" => previous_stats = None
  /\ (ret.op = "update_config" /\ ret.res.ok) => previous_stats = None
  /\ (ret.op = "update_config" /\ ~ret.res.ok)
       => previous_stats = ret.pre.previous_stats

\* a failed measurement on a Warmed engine in Instant mode
C33_Witness ==
  /\ ret.op = "measure_speed"
  /\ ret.pre.config.precision.mode = "Instant"
  /\ ret.pre.previous_stats # None
  /\ ~ret.res.ok
  /\ ret.res.err.kind # "WindowsApi"
  /\ previous_stats # None

\* C34: in a bridged tracker each measurement and its history append form one
\* atomic step for any interleaving of concurrent track() calls, so the
\* history is always ordered by the time the measurements were taken.
C34_HistoryInMeasurementOrder ==
  kind = "async_tracker" =>
    \A i \in 1..(Len(history) - 1) : history[i].timestamp <= history[i + 1].timestamp

\* the guard of the engine's mutex is held by the producer's closure
ProducerHoldsLock == inner.owner = Some(ProducerTask)

\* C35: the producer of monitor_with_channel holds the engine's mutex only
\* while its closure measures, never while it waits for a tick or for room
\* in the channel, and it always lets go of it again, so the mutex keeps
\* becoming free for the other bridged calls.
C35_ProducerHoldsLockOnlyToMeasure ==
  /\ [](ProducerHoldsLock => producer.pc = "inside")
  /\ ProducerHoldsLock ~> inner.owner = None

\* a caller's closure holds the mutex while the producer is blocked sending
\* on a full channel
C35_Witness ==
  /\ producer.pc = "send"
  /\ channel.open
  /\ Len(channel.queue) = channel.capacity
  /\ \E task \in Tasks : inner.owner = Some(task)

\* C36: get_instantaneous_speed() on an engine without a previous snapshot
\* returns None, makes no measurement and leaves the engine (config,
\* interface manager, previous_stats) and the clock as they were.
C36_ColdInstantaneousSpeedIsNone ==
  (ret.op = "get_instantaneous_speed" /\ ret.pre.previous_stats = None)
    => /\ ret.res = Ok(None)
       /\ ret.measured = None
       /\ Monitor = ret.pre

\* the call was made on an engine that had measured and was reset
C36_Witness ==
  /\ ret.op = "get_instantaneous_speed"
  /\ ret.pre.previous_stats = None
  /\ ret.pre.interface_manager.interface_cache # <<>>
  /\ ret.res = Ok(None)

\* C37: under a config accepted by validate(), a window whose sleep lasts
\* exactly the configured interval does not fail with
\* InsufficientTimeElapsed.
C37_ValidWindowIsLongEnough ==
  (ret.op = "measure_samples" /\ validate(config).ok)
    => \A i \in 1..Len(ret.windows) :
         (~ret.windows[i].res.ok
            /\ ret.windows[i].to = ret.windows[i].from + config.precision.interval)
           => ret.windows[i].res.err.kind # "InsufficientTimeElapsed"

\* C38: measure_average_speed, once its samples are collected, returns on
\* each side the floor of the true sum of their rates divided by their
\* number: the accumulator does not overflow.
C38_MeansDoNotOverflow ==
  (/\ ret.op = "measure_average_speed"
   /\ AsMillis(ret.args[2]) > 0
   /\ RanToTheEnd(Len(ret.attempts))
   /\ Successes(ret.attempts) # <<>>)
    => /\ ret.res.returned
       /\ ret.res.val.ok
       /\ ret.res.val.val.upload_bytes_per_sec * Len(Successes(ret.attempts))
            <= SumNat(Successes(ret.attempts), "upload_bytes_per_sec")
       /\ ret.res.val.val.download_bytes_per_sec * Len(Successes(ret.attempts))
            <= SumNat(Successes(ret.attempts), "download_bytes_per_sec")
       /\ SumNat(Successes(ret.attempts), "upload_bytes_per_sec")
            < (ret.res.val.val.upload_bytes_per_sec + 1) * Len(Successes(ret.attempts))
       /\ SumNat(Successes(ret.attempts), "download_bytes_per_sec")
            < (ret.res.val.val.download_bytes_per_sec + 1) * Len(Successes(ret.attempts))

\* C39: measure_average_speed with a sample_interval shorter than one
\* millisecond (zero included) returns Err(InvalidConfiguration).
C39_SubMillisecondIntervalIsRejected ==
  (ret.op = "measure_average_speed" /\ AsMillis(ret.args[2]) = 0)
    => /\ ret.res.returned
       /\ ~ret.res.val.ok
       /\ ret.res.val.err.kind = "InvalidConfiguration"

\* C40: for any interleaving of concurrent get_net_speed calls, the
\* timestamp of the stats a call stores in PREVIOUS_STATS is not earlier than
\* the timestamp of the stats it replaces.
C40_StoredTimestampNeverDecreases ==
  (/\ ret.op = "get_net_speed"
   /\ ret.res = 0
   /\ ret.previous.timestamp # None)
    => ret.stored.timestamp[1] >= ret.previous.timestamp[1]

====
